---- MODULE Spec2Model ----
(***************************************************************************)
(* A model of the bytecode calculator: the lexer (src/src/lexer.rs), the   *)
(* precedence compiler (src/src/compiler.rs), the stack machine            *)
(* (src/src/vm.rs) and the terminal shell that drives them                 *)
(* (src/src/app.rs).                                                       *)
(*                                                                         *)
(* Bytes are one-character strings, a byte buffer is a sequence of them.   *)
(* Indices into buffers are 0-based as in the source, so the byte the      *)
(* cursor i looks at is buf[i + 1].                                        *)
(***************************************************************************)
EXTENDS Integers, Sequences, FiniteSets, TLC

VARIABLES
    pc,                   \* where the driving harness stands
    src,                  \* Lexer.src
    src_index,            \* Lexer.src_index
    scanned,              \* what the calls of scan returned so far, oldest first
    prev_token,           \* Compiler.prev_token
    current_token,        \* Compiler.current_token
    chunk,                \* Compiler.chunk
    frames,               \* the compiler's pending calls, innermost first
    compiled,             \* what compile returned (NotYet while it runs)
    instruction_pointer,  \* VirtualMachine.instruction_pointer
    stack,                \* VirtualMachine.stack, top last
    ans,                  \* VirtualMachine.ans
    result,               \* what interpret returned (NotYet before it returns)
    nlines,               \* lines the REPL has read
    history,              \* the evaluations finished before the one under way
    expressions,          \* gui::App.expressions, oldest first
    expression_index      \* gui::App.expression_index

vars == <<pc, src, src_index, scanned, prev_token, current_token, chunk, frames,
          compiled, instruction_pointer, stack, ans, result, nlines,
          history, expressions, expression_index>>

lexerVars == <<src, src_index, scanned>>
compilerVars == <<prev_token, current_token, chunk, frames, compiled>>
vmVars == <<instruction_pointer, stack, ans, result>>
guiVars == <<expressions, expression_index>>

-----------------------------------------------------------------------------
(* Bounds of the model.                                                    *)

\* pieces a scanned byte buffer is put together from
MaxPieces == 3
\* calls of scan on one lexer
MaxScans == 4

-----------------------------------------------------------------------------
(* Options and results.                                                    *)

None == [t |-> "None"]
NotYet == [t |-> "NotYet"]
OkUnit == [t |-> "Ok"]
Panic(msg) == [t |-> "Panic", msg |-> msg]


-----------------------------------------------------------------------------
(* lexer.rs: the vocabulary.                                               *)

FuncTypes == <<"Sqrt", "Log", "Sin", "Cos", "Pow">>

\* FuncType as u8: the position in the enum, from 0
FuncTypeAsU8(f) == (CHOOSE i \in 1..Len(FuncTypes) : FuncTypes[i] = f) - 1

\* TryFrom<u8> for FuncType: None stands for Err(InvalidFuncCode)
FuncTypeTryFrom(b) ==
    IF b \in 0..(Len(FuncTypes) - 1) THEN [t |-> "Some", v |-> FuncTypes[b + 1]] ELSE None

\* arity with every function of one argument
arity_one(f) == 1

\* FuncType::arity
arity(f) == IF f = "Pow" THEN 2 ELSE 1

Number(digits) == [t |-> "Number", digits |-> digits]
Func(f) == [t |-> "Func", f |-> f]
LeftParen == [t |-> "LeftParen"]
RightParen == [t |-> "RightParen"]
Plus == [t |-> "Plus"]
Minus == [t |-> "Minus"]
Mult == [t |-> "Mult"]
Div == [t |-> "Div"]
Comma == [t |-> "Comma"]
Ans == [t |-> "Ans"]

\* From<FuncType> for String
FuncTypeString(f) ==
    CASE f = "Log" -> <<"L", "o", "g">>
      [] f = "Sin" -> <<"s", "i", "n">>
      [] f = "Cos" -> <<"c", "o", "s">>
      [] f = "Sqrt" -> <<"s", "q", "r", "t">>
      [] f = "Pow" -> <<"p", "o", "w">>

\* From<Token> for String
TokenString(tok) ==
    CASE tok.t = "Div" -> <<"/">>
      [] tok.t = "Mult" -> <<"*">>
      [] tok.t = "Number" -> tok.digits
      [] tok.t = "Plus" -> <<"+">>
      [] tok.t = "Minus" -> <<"-">>
      [] tok.t = "LeftParen" -> <<"(">>
      [] tok.t = "RightParen" -> <<")">>
      [] tok.t = "Func" -> FuncTypeString(tok.f)
      [] tok.t = "Comma" -> <<",">>
      [] tok.t = "Ans" -> <<"a", "n", "s">>

\* enum Priority, by its derived order
PNull == 0
PComma == 1
PNumber == 2
PTerm == 3
PFactor == 4
\* Unary on the rung of Term
PUnary_AsTerm == PTerm
PUnary == 5
PGroup == 6

\* next that stays on the rung it is given
PriorityNext_Same(p) == p

\* next that goes round from Group to Null
PriorityNext_Round(p) == (p + 1) % 7

\* Priority::next
PriorityNext(p) ==
    CASE p = PNull -> PComma
      [] p = PComma -> PNumber
      [] p = PNumber -> PTerm
      [] p = PTerm -> PFactor
      [] p = PFactor -> PUnary
      [] p = PUnary -> PGroup
      [] p = PGroup -> PGroup

\* priority with one rung for the four binary operators
priority_flat(tok) ==
    CASE tok.t = "Ans" -> PNumber
      [] tok.t = "Number" -> PNumber
      [] tok.t = "Func" -> PFactor
      [] tok.t = "LeftParen" -> PGroup
      [] tok.t = "RightParen" -> PNull
      [] tok.t = "Plus" -> PTerm
      [] tok.t = "Minus" -> PTerm
      [] tok.t = "Mult" -> PTerm
      [] tok.t = "Div" -> PTerm
      [] tok.t = "Comma" -> PComma

\* Token::priority
priority(tok) ==
    CASE tok.t = "Ans" -> PNumber
      [] tok.t = "Number" -> PNumber
      [] tok.t = "Func" -> PFactor
      [] tok.t = "LeftParen" -> PGroup
      [] tok.t = "RightParen" -> PNull
      [] tok.t = "Plus" -> PTerm
      [] tok.t = "Minus" -> PTerm
      [] tok.t = "Mult" -> PFactor
      [] tok.t = "Div" -> PFactor
      [] tok.t = "Comma" -> PComma

\* lexer::Error
Eof == [t |-> "Eof"]
InvalidChar(c) == [t |-> "InvalidChar", c |-> c]
InvalidNumberFormat(c) == [t |-> "InvalidNumberFormat", c |-> c]

IsLexerError(r) == r.t \in {"Eof", "InvalidChar", "InvalidNumberFormat"}
IsPanic(r) == r.t = "Panic"
IsToken(r) == ~IsLexerError(r) /\ ~IsPanic(r) /\ r # None

-----------------------------------------------------------------------------
(* lexer.rs: the Lexer.  Every operator below takes the buffer and the     *)
(* cursor and gives [r |-> what the call returns, i |-> the cursor after]. *)

Digits == {"0", "1", "2", "3", "4", "5", "6", "7", "8", "9"}
\* u8::is_ascii_whitespace: space, tab, line feed, form feed, carriage return
Whitespace == {" ", "\t", "\n", "\f", "\r"}

is_ascii_digit(c) == c \in Digits
is_ascii_whitespace(c) == c \in Whitespace

\* Lexer::peek_word: the slice src[i .. i + ch_len]; slicing past the end of
\* the buffer panics
peek_word(buf, i, ch_len) ==
    IF i + ch_len <= Len(buf) THEN [t |-> "Some", v |-> SubSeq(buf, i + 1, i + ch_len)]
    ELSE Panic("range end index out of range for slice")

\* consume_token that steps over one byte whatever the lexeme
consume_token_one_byte(tok, i, bytes) == [r |-> tok, i |-> i + 1]

\* Lexer::consume_token
consume_token(tok, i, bytes) == [r |-> tok, i |-> i + bytes]

\* skip_whitespace that leaves the cursor where it is
skip_whitespace_stay(buf, i) == i

\* Lexer::skip_whitespace: the cursor after the loop; Err(Eof) is the cursor
\* standing at the end of the buffer
RECURSIVE skip_whitespace(_, _)
skip_whitespace(buf, i) ==
    IF i < Len(buf) /\ is_ascii_whitespace(buf[i + 1]) THEN skip_whitespace(buf, i + 1)
    ELSE i

\* the loop of consume_number that refuses a `.` after a `.` only
RECURSIVE consume_number_loop_dot_after_e(_, _, _, _, _, _)
consume_number_loop_dot_after_e(buf, begin, i, dot, exponent, prev) ==
    LET number == [r |-> Number(SubSeq(buf, begin + 1, i)), i |-> i]
        c == buf[i + 1]
        err == [r |-> InvalidNumberFormat(c), i |-> i]
        go(d, e) == consume_number_loop_dot_after_e(buf, begin, i + 1, d, e, c)
    IN  IF i >= Len(buf) THEN number
        ELSE IF c = "." THEN
            IF dot THEN err ELSE go(TRUE, exponent)
        ELSE IF c = "-" THEN
            IF prev # "" /\ prev # "e" THEN err ELSE go(dot, exponent)
        ELSE IF c = "e" THEN
            IF exponent \/ (prev # "" /\ prev # "." /\ ~is_ascii_digit(prev)) THEN err
            ELSE go(dot, TRUE)
        ELSE IF ~is_ascii_digit(c) THEN
            IF prev # "" /\ (prev = "e" \/ prev = ".") THEN err ELSE number
        ELSE go(dot, exponent)

\* the while loop of Lexer::consume_number; prev is the last byte taken, "" for None
RECURSIVE consume_number_loop(_, _, _, _, _, _)
consume_number_loop(buf, begin, i, dot, exponent, prev) ==
    LET number == [r |-> Number(SubSeq(buf, begin + 1, i)), i |-> i]
        c == buf[i + 1]
        err == [r |-> InvalidNumberFormat(c), i |-> i]
        go(d, e) == consume_number_loop(buf, begin, i + 1, d, e, c)
    IN  IF i >= Len(buf) THEN number
        ELSE IF c = "." THEN
            IF dot \/ exponent THEN err ELSE go(TRUE, exponent)
        ELSE IF c = "-" THEN
            IF prev # "" /\ prev # "e" THEN err ELSE go(dot, exponent)
        ELSE IF c = "e" THEN
            IF exponent \/ (prev # "" /\ prev # "." /\ ~is_ascii_digit(prev)) THEN err
            ELSE go(dot, TRUE)
        ELSE IF ~is_ascii_digit(c) THEN
            IF prev # "" /\ (prev = "e" \/ prev = ".") THEN err ELSE number
        ELSE go(dot, exponent)

\* Lexer::consume_number
consume_number(buf, i) == consume_number_loop(buf, i, i, FALSE, FALSE, "")

\* one arm of Lexer::parse_fn: the keywords tried in order; a peek_word that
\* panics ends the call
RECURSIVE match_keywords(_, _, _, _)
match_keywords(buf, i, first_ch, kws) ==
    IF kws = <<>> THEN [r |-> InvalidChar(first_ch), i |-> i]
    ELSE LET kw == Head(kws)
             w == peek_word(buf, i, Len(kw.word))
         IN  IF w.t = "Panic" THEN [r |-> w, i |-> i]
             ELSE IF w.v = kw.word THEN consume_token(kw.tok, i, Len(kw.word))
             ELSE match_keywords(buf, i, first_ch, Tail(kws))

\* Lexer::parse_fn
LexerParseFn(buf, i, first_ch) ==
    match_keywords(buf, i, first_ch,
        CASE first_ch = "s" -> << [word |-> <<"s", "i", "n">>, tok |-> Func("Sin")],
                                  [word |-> <<"s", "q", "r", "t">>, tok |-> Func("Sqrt")] >>
          [] first_ch = "c" -> << [word |-> <<"c", "o", "s">>, tok |-> Func("Cos")] >>
          [] first_ch = "l" -> << [word |-> <<"l", "o", "g">>, tok |-> Func("Log")] >>
          [] first_ch = "p" -> << [word |-> <<"p", "o", "w">>, tok |-> Func("Pow")] >>
          [] OTHER -> << >>)

\* Scan for Lexer: scan
Scan(buf, idx) ==
    LET i == skip_whitespace(buf, idx)
        c == buf[i + 1]
    IN  IF i >= Len(buf) THEN [r |-> Eof, i |-> i]
        ELSE IF is_ascii_digit(c) THEN consume_number(buf, i)
        ELSE CASE c = "(" -> consume_token(LeftParen, i, 1)
               [] c = ")" -> consume_token(RightParen, i, 1)
               [] c = "+" -> consume_token(Plus, i, 1)
               [] c = "-" -> consume_token(Minus, i, 1)
               [] c = "*" -> consume_token(Mult, i, 1)
               [] c = "/" -> consume_token(Div, i, 1)
               [] c = "," -> consume_token(Comma, i, 1)
               [] c = "a" ->
                    LET w == peek_word(buf, i, 3)
                    IN  IF w.t = "Panic" THEN [r |-> w, i |-> i]
                        ELSE IF w.v = <<"a", "n", "s">> THEN consume_token(Ans, i, 3)
                        ELSE LexerParseFn(buf, i, c)
               [] OTHER -> LexerParseFn(buf, i, c)

-----------------------------------------------------------------------------
(* f64 and u64.                                                            *)
(*                                                                         *)
(* A u64 is its 8 bytes, most significant first.  An f64 is one of         *)
(*   [t |-> "rat", n, d]   the double that is exactly n / d, d a power of  *)
(*                         two, n and d coprime and below 2^30;            *)
(*   [t |-> "bits", p]     any other double, known by its bit pattern p    *)
(*                         (negative zero among them);                     *)
(*   [t |-> "inf", s]      an infinity of sign s;  [t |-> "nan"];          *)
(*   [t |-> "sym", ...]    a finite result of an operation whose digits    *)
(*                         the model does not compute, with what is known  *)
(*                         of its sign (sg: -1, 0, 1, or 2 for unknown).   *)

Abs(x) == IF x < 0 THEN -x ELSE x
Sgn(x) == IF x < 0 THEN -1 ELSE IF x = 0 THEN 0 ELSE 1

RECURSIVE Gcd(_, _)
Gcd(a, b) == IF b = 0 THEN a ELSE Gcd(b, a % b)

RECURSIVE Pow2(_)
Pow2(k) == IF k = 0 THEN 1 ELSE 2 * Pow2(k - 1)

Big == Pow2(30)

RECURSIVE Pow10(_)
Pow10(k) == IF k = 0 THEN 1 ELSE 10 * Pow10(k - 1)

\* the largest k with 2^k <= x, for x >= 1
RECURSIVE FloorLog2(_)
FloorLog2(x) == IF x < 2 THEN 0 ELSE 1 + FloorLog2(x \div 2)

IsPow2(x) == x >= 1 /\ Pow2(FloorLog2(x)) = x

NaN == [t |-> "nan"]
Inf(s) == [t |-> "inf", s |-> s]
Bits(p) == [t |-> "bits", p |-> p]
Sym(op, args, sg) == [t |-> "sym", op |-> op, args |-> args, sg |-> sg]
Rat(n, d) ==
    LET g == Gcd(Abs(n), Abs(d))
    IN  [t |-> "rat", n |-> Sgn(d) * (n \div g), d |-> Abs(d) \div g]

Zero == Rat(0, 1)
One == Rat(1, 1)
NegZero == Bits(<<128, 0, 0, 0, 0, 0, 0, 0>>)

\* the 52 fraction bits of a double go into the u64 as 4 bits and 6 bytes
FractionWidths == <<16, 256, 256, 256, 256, 256, 256>>

\* long division of r / den, r < den, a digit of each of the widths at a time:
\* the digits q and the remainder r left after them
RECURSIVE LongDivide(_, _, _)
LongDivide(r, den, widths) ==
    IF widths = <<>> THEN [q |-> <<>>, r |-> r]
    ELSE LET t == r * Head(widths)
             rest == LongDivide(t % den, den, Tail(widths))
         IN  [q |-> <<t \div den>> \o rest.q, r |-> rest.r]

\* the digits q plus one in the last place; all at their maximum wrap to zeros
RECURSIVE DigitsInc(_, _)
DigitsInc(q, widths) ==
    IF q = <<>> THEN <<>>
    ELSE LET n == Len(q)
         IN  IF q[n] + 1 < widths[n] THEN [q EXCEPT ![n] = q[n] + 1]
             ELSE DigitsInc(SubSeq(q, 1, n - 1), SubSeq(widths, 1, n - 1)) \o <<0>>

\* sign, biased exponent and the fraction digits laid out as a u64
F64Layout(neg, e, fr) ==
    <<(IF neg THEN 128 ELSE 0) + e \div 16, (e % 16) * 16 + fr[1],
      fr[2], fr[3], fr[4], fr[5], fr[6], fr[7]>>

\* the double nearest to n / d (ties to even), as a u64; |n|, d < 2^14
NearestDouble(n, d) ==
    LET a == Abs(n)
        e == IF a >= d THEN FloorLog2(a \div d)
             ELSE -(FloorLog2((d - 1) \div a) + 1)
        num == IF e >= 0 THEN a ELSE a * Pow2(-e)
        den == IF e >= 0 THEN d * Pow2(e) ELSE d
        div == LongDivide(num - den, den, FractionWidths)
        up == 2 * div.r > den \/ (2 * div.r = den /\ div.q[7] % 2 = 1)
        carry == up /\ \A k \in 1..7 : div.q[k] = FractionWidths[k] - 1
    IN  IF n = 0 THEN <<0, 0, 0, 0, 0, 0, 0, 0>>
        ELSE F64Layout(n < 0, e + 1023 + (IF carry THEN 1 ELSE 0),
                       IF up THEN DigitsInc(div.q, FractionWidths) ELSE div.q)

\* f64::to_bits
to_bits(v) ==
    CASE v.t = "rat" -> NearestDouble(v.n, v.d)
      [] v.t = "bits" -> v.p
      [] v.t = "inf" -> <<(IF v.s < 0 THEN 255 ELSE 127), 240, 0, 0, 0, 0, 0, 0>>
      [] v.t = "nan" -> <<127, 248, 0, 0, 0, 0, 0, 0>>

\* f64::from_bits
from_bits(u) ==
    LET neg == u[1] >= 128
        e == (u[1] % 128) * 16 + u[2] \div 16
        hi == (u[2] % 16) * 65536 + u[3] * 256 + u[4]
        lowZero == \A k \in 5..8 : u[k] = 0
        m == 1048576 + hi
        x == e - 1023 - 20
        s == IF neg THEN -1 ELSE 1
    IN  IF e = 2047 THEN (IF hi = 0 /\ lowZero THEN Inf(s) ELSE NaN)
        ELSE IF e = 0 /\ hi = 0 /\ lowZero THEN (IF neg THEN NegZero ELSE Zero)
        ELSE IF lowZero /\ x >= -29 /\ x <= 9
            THEN (IF x >= 0 THEN Rat(s * m * Pow2(x), 1) ELSE Rat(s * m, Pow2(-x)))
        ELSE Bits(u)

\* str::parse::<f64> on the bytes of a Number token: None when the text is no
\* float literal.  The lexer gives digits, then at most one '.', then at most
\* one 'e' with an optional '-'; Rust wants a digit after the 'e' or "e-".
RECURSIVE DigitsValue(_)
DigitsValue(ds) ==
    IF ds = <<>> THEN 0
    ELSE 10 * DigitsValue(SubSeq(ds, 1, Len(ds) - 1))
         + (CHOOSE k \in 0..9 : ToString(k) = ds[Len(ds)])

Find(ds, c) == IF \E k \in 1..Len(ds) : ds[k] = c
               THEN (CHOOSE k \in 1..Len(ds) : ds[k] = c /\ \A j \in 1..(k - 1) : ds[j] # c)
               ELSE 0

AllDigits(ds) == \A k \in 1..Len(ds) : is_ascii_digit(ds[k])

ParseF64(digits) ==
    LET ePos == Find(digits, "e")
        mant == IF ePos = 0 THEN digits ELSE SubSeq(digits, 1, ePos - 1)
        expo == IF ePos = 0 THEN <<>> ELSE SubSeq(digits, ePos + 1, Len(digits))
        expNeg == expo # <<>> /\ expo[1] = "-"
        expDigits == IF expNeg THEN Tail(expo) ELSE expo
        dotPos == Find(mant, ".")
        int == IF dotPos = 0 THEN mant ELSE SubSeq(mant, 1, dotPos - 1)
        frac == IF dotPos = 0 THEN <<>> ELSE SubSeq(mant, dotPos + 1, Len(mant))
        wellFormed == /\ AllDigits(int) /\ AllDigits(frac) /\ AllDigits(expDigits)
                      /\ Len(int) + Len(frac) >= 1
                      /\ (ePos # 0 => expDigits # <<>>)
        x == (IF expNeg THEN -1 ELSE 1) * DigitsValue(expDigits) - Len(frac)
        m == DigitsValue(int \o frac)
        q == IF x >= 0 THEN Rat(m * Pow10(x), 1) ELSE Rat(m, Pow10(-x))
    IN  IF ~wellFormed THEN None
        ELSE [t |-> "Some", v |-> from_bits(NearestDouble(q.n, q.d))]

-----------------------------------------------------------------------------
(* f64 arithmetic.  Results that are exactly representable and small are   *)
(* computed; any other finite result is a "sym" value.  Where the sign of  *)
(* an operand is not known, every outcome the sign allows is given: the    *)
(* operators with a choice return the set of possible results.             *)

SmallLimit == Pow2(15)

Small(v) == v.t = "rat" /\ Abs(v.n) < SmallLimit /\ v.d < SmallLimit
IsFinite(v) == v.t \in {"rat", "bits", "sym"}
IsNaN(v) == v.t = "nan"

\* -1, 0, 1, or 2 when the model does not know
SignOf(v) ==
    CASE v.t = "rat" -> Sgn(v.n)
      [] v.t = "bits" -> IF v = NegZero THEN 0 ELSE IF v.p[1] >= 128 THEN -1 ELSE 1
      [] v.t = "inf" -> v.s
      [] v.t = "sym" -> v.sg
      [] v.t = "nan" -> 2

Signs(v) == IF SignOf(v) = 2 THEN {-1, 0, 1} ELSE {SignOf(v)}
SignTimes(s1, s2) == IF s1 = 0 \/ s2 = 0 THEN 0 ELSE IF s1 = 2 \/ s2 = 2 THEN 2 ELSE s1 * s2
SignNeg(s1) == IF s1 = 2 THEN 2 ELSE -s1

\* a == 0.0: the truth values the comparison can have
EqZero(a) == IF IsNaN(a) THEN {FALSE} ELSE {sg = 0 : sg \in Signs(a)}

\* -a
FNeg(a) ==
    CASE a.t = "rat" -> IF a.n = 0 THEN NegZero ELSE Rat(-a.n, a.d)
      [] a.t = "bits" -> IF a = NegZero THEN Zero
                         ELSE Bits([a.p EXCEPT ![1] = (a.p[1] + 128) % 256])
      [] a.t = "inf" -> Inf(-a.s)
      [] a.t = "nan" -> NaN
      [] a.t = "sym" -> Sym("neg", <<a>>, SignNeg(a.sg))

\* b + a
FAdd(b, a) ==
    IF IsNaN(a) \/ IsNaN(b) THEN {NaN}
    ELSE IF a.t = "inf" /\ b.t = "inf" THEN {IF a.s = b.s THEN a ELSE NaN}
    ELSE IF a.t = "inf" THEN {a}
    ELSE IF b.t = "inf" THEN {b}
    ELSE IF Small(a) /\ Small(b) THEN {Rat(b.n * a.d + a.n * b.d, b.d * a.d)}
    ELSE IF SignOf(a) = 0 THEN {b}
    ELSE IF SignOf(b) = 0 THEN {a}
    ELSE {Sym("add", <<b, a>>,
              IF SignOf(a) = SignOf(b) THEN SignOf(a) ELSE 2)}

\* b - a
FSub(b, a) ==
    IF IsFinite(a) /\ IsFinite(b) /\ a = b THEN {Zero}
    ELSE IF IsFinite(a) /\ IsFinite(b) /\ ~(Small(a) /\ Small(b)) /\ SignOf(a) # 0
              /\ SignOf(b) # 0
        THEN {Sym("sub", <<b, a>>, IF SignOf(a) = SignNeg(SignOf(b)) THEN SignOf(b) ELSE 2)}
    ELSE FAdd(b, FNeg(a))

\* b * a
FMul(b, a) ==
    IF IsNaN(a) \/ IsNaN(b) THEN {NaN}
    ELSE IF a.t = "inf" \/ b.t = "inf" THEN
        {IF sa = 0 \/ sb = 0 THEN NaN ELSE Inf(sa * sb) : sa \in Signs(a), sb \in Signs(b)}
    ELSE IF Small(a) /\ Small(b) THEN {Rat(b.n * a.n, b.d * a.d)}
    ELSE IF SignOf(a) = 0 \/ SignOf(b) = 0 THEN {Zero}
    ELSE {Sym("mul", <<b, a>>, SignTimes(SignOf(a), SignOf(b)))}

\* b / a, for a that compared unequal to 0.0
FDiv(b, a) ==
    IF IsNaN(a) \/ IsNaN(b) THEN {NaN}
    ELSE IF a.t = "inf" /\ b.t = "inf" THEN {NaN}
    ELSE IF a.t = "inf" THEN {Zero}
    ELSE IF b.t = "inf" THEN {Inf(b.s * sa) : sa \in Signs(a) \ {0}}
    ELSE IF SignOf(b) = 0 THEN {Zero}
    ELSE IF Small(a) /\ Small(b) /\ IsPow2(Rat(b.n * a.d, b.d * a.n).d)
        THEN {Rat(b.n * a.d, b.d * a.n)}
    ELSE {Sym("div", <<b, a>>, SignTimes(SignOf(a), SignOf(b)))}

\* the largest r with r * r <= x, for 0 <= x < 2^30
RECURSIVE ISqrt(_)
ISqrt(x) ==
    IF x < 2 THEN x
    ELSE LET r == 2 * ISqrt(x \div 4)
         IN  IF (r + 1) * (r + 1) <= x THEN r + 1 ELSE r

IsSquare(x) == x >= 0 /\ x < Big /\ ISqrt(x) * ISqrt(x) = x

\* f64::ln
FLn(a) ==
    IF IsNaN(a) THEN {NaN}
    ELSE IF a.t = "inf" THEN {IF a.s > 0 THEN a ELSE NaN}
    ELSE { CASE sg = -1 -> NaN
             [] sg = 0 -> Inf(-1)
             [] sg = 1 -> IF a = One THEN Zero
                          ELSE Sym("ln", <<a>>,
                                   CASE a.t = "rat" -> Sgn(a.n - a.d)
                                     [] a.t = "bits" ->
                                          IF (a.p[1] % 128) * 16 + a.p[2] \div 16 >= 1023
                                          THEN 1 ELSE -1
                                     [] OTHER -> 2)
           : sg \in Signs(a) }

\* f64::sqrt
FSqrt(a) ==
    IF IsNaN(a) THEN {NaN}
    ELSE IF a.t = "inf" THEN {IF a.s > 0 THEN a ELSE NaN}
    ELSE { CASE sg = -1 -> NaN
             [] sg = 0 -> IF SignOf(a) = 0 THEN a ELSE Zero
             [] sg = 1 -> IF a.t = "rat" /\ IsSquare(a.n) /\ IsSquare(a.d)
                          THEN Rat(ISqrt(a.n), ISqrt(a.d))
                          ELSE Sym("sqrt", <<a>>, 1)
           : sg \in Signs(a) }

\* f64::sin
FSin(a) ==
    IF IsNaN(a) \/ a.t = "inf" THEN {NaN}
    ELSE IF SignOf(a) = 0 THEN {a}
    ELSE {Sym("sin", <<a>>, IF Small(a) /\ Abs(a.n) < 3 * a.d THEN Sgn(a.n) ELSE 2)}

\* f64::cos
FCos(a) ==
    IF IsNaN(a) \/ a.t = "inf" THEN {NaN}
    ELSE IF SignOf(a) = 0 THEN {One}
    ELSE {Sym("cos", <<a>>, IF Small(a) /\ 2 * Abs(a.n) < 3 * a.d THEN 1 ELSE 2)}

\* x * y for x, y >= 0, or -1 when the product leaves the model's integers
SafeMul(x, y) ==
    IF x < 0 \/ y < 0 THEN -1
    ELSE IF x = 0 \/ y = 0 THEN 0
    ELSE IF x > (Big - 1) \div y THEN -1
    ELSE x * y

\* x^k for x, k >= 0, or -1 when it leaves the model's integers
RECURSIVE IPow(_, _)
IPow(x, k) ==
    IF k = 0 \/ x = 1 THEN 1
    ELSE IF x = 0 THEN 0
    ELSE IF k > 30 THEN -1
    ELSE SafeMul(x, IPow(x, k - 1))

\* base^ex for a rational base > 0 and a rational ex # 0 whose digits the model
\* does not compute: overflow to an infinity, underflow to zero, or a finite
\* value of sign sgn, by bounds on the binary logarithm of the result
PowByMagnitude(base, ex, sgn) ==
    LET lo == FloorLog2(Abs(base.n)) - FloorLog2(base.d)
        hi == IF IsPow2(Abs(base.n)) THEN lo ELSE lo + 1
        L == IF ex.n > 0 THEN ex.n * lo ELSE ex.n * hi
        H == IF ex.n > 0 THEN ex.n * hi ELSE ex.n * lo
    IN  (IF H >= 1024 * ex.d THEN {Inf(sgn)} ELSE {})
        \cup (IF L < -1074 * ex.d THEN {Zero} ELSE {})
        \cup (IF L < 1024 * ex.d /\ H >= -1075 * ex.d
              THEN {Sym("pow", <<base, ex>>, sgn)} ELSE {})

IsOddInteger(v) == v.t = "rat" /\ v.d = 1 /\ v.n % 2 = 1

\* f64::powf
FPowf(base, ex) ==
    IF SignOf(ex) = 0 \/ base = One THEN {One}
    ELSE IF IsNaN(base) \/ IsNaN(ex) THEN {NaN}
    ELSE IF Small(base) /\ Small(ex) THEN
        IF base.n = 0 THEN {IF ex.n > 0 THEN Zero ELSE Inf(1)}
        ELSE IF ex.d = 1 THEN
            LET k == Abs(ex.n)
                P == IPow(Abs(base.n), k)
                Q == IPow(base.d, k)
                sgn == IF base.n < 0 /\ k % 2 = 1 THEN -1 ELSE 1
            IN  IF P >= 0 /\ Q >= 0 /\ ex.n > 0 THEN {Rat(sgn * P, Q)}
                ELSE IF P >= 0 /\ Q >= 0 /\ IsPow2(P) THEN {Rat(sgn * Q, P)}
                ELSE PowByMagnitude(base, ex, sgn)
        ELSE IF base.n < 0 THEN {NaN}
        ELSE IF ex = Rat(1, 2) /\ IsSquare(base.n) /\ IsSquare(base.d)
            THEN {Rat(ISqrt(base.n), ISqrt(base.d))}
        ELSE PowByMagnitude(base, ex, 1)
    ELSE IF ex.t = "inf" THEN
        IF base.t = "rat" /\ Abs(base.n) = base.d THEN {One}
        ELSE IF base.t = "rat" THEN {IF (Abs(base.n) > base.d) = (ex.s > 0) THEN Inf(1) ELSE Zero}
        ELSE IF base.t = "inf" THEN {IF ex.s > 0 THEN Inf(1) ELSE Zero}
        ELSE {Inf(1), Zero, One}
    ELSE IF base.t = "inf" THEN
        { CASE sg = 0 -> One
            [] sg = 1 -> Inf(IF base.s < 0 /\ IsOddInteger(ex) THEN -1 ELSE 1)
            [] sg = -1 -> Zero
          : sg \in Signs(ex) }
    ELSE IF SignOf(base) = 1 THEN
        {Sym("pow", <<base, ex>>, 1)} \cup (IF SignOf(ex) = 2 THEN {One} ELSE {})
    ELSE IF SignOf(base) = 0 THEN
        { CASE sg = 0 -> One [] sg = 1 -> Zero [] sg = -1 -> Inf(1) : sg \in Signs(ex) }
    ELSE {Sym("pow", <<base, ex>>, 2), NaN}

-----------------------------------------------------------------------------
(* compiler.rs: errors, opcodes, emission.                                 *)

Some(v) == [t |-> "Some", v |-> v]
Err(e) == [t |-> "Err", e |-> e]
Ok(v) == [t |-> "Ok", v |-> v]

IsErr(r) == r.t = "Err"

\* compiler::Error
FromLexer(e) == [t |-> "Err", e |-> "FromLexer", inner |-> e]
InvalidNumber(digits) == [t |-> "Err", e |-> "InvalidNumber", digits |-> digits]
InvalidTokenBefore(prev, current) ==
    [t |-> "Err", e |-> "InvalidTokenBefore", prev |-> TokenString(prev),
     current |-> IF current = None THEN None ELSE Some(TokenString(current))]
InvalidToken(tok) == [t |-> "Err", e |-> "InvalidToken", tok |-> TokenString(tok)]
UnterminedGroup == Err("UnterminedGroup")
MissingFunctionParen == Err("MissingFunctionParen")
MissingCommaInFunctionCall == Err("MissingCommaInFunctionCall")

\* enum Op
OpNumber == 0
OpPlus == 1
OpMinus == 2
OpMult == 3
OpDiv == 4
OpNegate == 5
OpFunc == 6
OpAns == 7
\* the variant vm.rs dispatches on and compiler.rs does not declare
OpNumberI8 == 8

\* TryFrom<u8> for Op: None stands for Err(InvalidOpcode)
OpTryFrom(b) == IF b \in OpNumber..OpAns THEN Some(b) ELSE None

\* (as_u64 >> (i * 8)) & 0xFF
U64Byte(u, i) == u[8 - i]

\* the loop of emit_number on the f64 v: the bytes (as_u64 >> (i * 8)) & 0xFF,
\* i from 0 to 7, in the order they are pushed
NumberPayload(v) == [k \in 1..8 |-> U64Byte(to_bits(v), k - 1)]

\* emit_number with the loop one byte short: 7 payload bytes
emit_number_seven(digits) ==
    LET num == ParseF64(digits)
    IN  IF num # None
        THEN Ok(<<OpNumber>> \o [k \in 1..7 |-> U64Byte(to_bits(num.v), k - 1)])
        ELSE InvalidNumber(digits)

\* emit_number with the one-byte instruction for an integer in -128..127
emit_number_small(digits) ==
    LET num == ParseF64(digits)
    IN  IF num = None THEN InvalidNumber(digits)
        ELSE IF num.v.t = "rat" /\ num.v.d = 1 /\ num.v.n >= -128 /\ num.v.n <= 127
            THEN Ok(<<OpNumberI8, num.v.n % 256>>)
        ELSE Ok(<<OpNumber>> \o [k \in 1..8 |-> U64Byte(to_bits(num.v), k - 1)])

\* Compiler::emit_number: the bytes pushed, or the error
emit_number(digits) ==
    LET num == ParseF64(digits)
    IN  IF num # None
        THEN Ok(<<OpNumber>> \o [k \in 1..8 |-> U64Byte(to_bits(num.v), k - 1)])
        ELSE InvalidNumber(digits)

\* the opcode parse_binary pushes for tok
BinaryOp(tok) ==
    CASE tok.t = "Minus" -> Ok(OpMinus)
      [] tok.t = "Plus" -> Ok(OpPlus)
      [] tok.t = "Div" -> Ok(OpDiv)
      [] tok.t = "Mult" -> Ok(OpMult)
      [] OTHER -> InvalidToken(tok)

IsBinaryToken(tok) == tok.t \in {"Div", "Plus", "Mult", "Minus"}

-----------------------------------------------------------------------------
(* compiler.rs: the Compiler, one action per step between two calls.       *)
(* frames holds the calls that are still to run or to be returned to.      *)

Frame(k) == [k |-> k]
ExpressionFrame(p) == [k |-> "expression", p |-> p]
LoopFrame(p) == [k |-> "loop", p |-> p]
ParseBinaryFrame(tok) == [k |-> "parse_binary", tok |-> tok]
ParseFnFrame(f) == [k |-> "parse_fn", f |-> f]
ParseFnArgFrame(f, left) == [k |-> "parse_fn_arg", f |-> f, left |-> left]

Running(k) == frames # <<>> /\ Head(frames).k = k /\ pc \notin {"panicked", "scan"}

\* Compiler::advance: its effect on the tokens and on the lexer, given what
\* scan returned
Advance(r) ==
    /\ prev_token' = current_token
    /\ current_token' = (IF IsToken(r.r) THEN r.r ELSE None)
    /\ src_index' = r.i
    /\ scanned' = Append(scanned, r.r)
    /\ src' = src

\* advance that takes every lexer error for the end of the input
AdvanceResult_EveryErrorIsEof(r) ==
    IF IsPanic(r.r) THEN r.r
    ELSE OkUnit

\* what Compiler::advance returns
AdvanceResult(r) ==
    IF IsPanic(r.r) THEN r.r
    ELSE IF IsLexerError(r.r) /\ r.r # Eof THEN FromLexer(r.r)
    ELSE OkUnit

\* a step of the compiler ends the compile with e: an error that `?` hands up
\* to compile's caller, or a panic that ends the process
Raise(e) ==
    /\ frames' = <<>>
    /\ compiled' = e
    /\ pc' = IF IsPanic(e) THEN "panicked" ELSE pc

Continue(fs) ==
    /\ frames' = fs
    /\ compiled' = compiled
    /\ pc' = pc

\* Compiler::consume(target, err), then on success the frames fs and the bytes
\* bs pushed
Consume(target, err, fs, bs) ==
    IF current_token # None /\ current_token = target
    THEN LET r == Scan(src, src_index)
         IN  /\ Advance(r)
             /\ IF AdvanceResult(r) = OkUnit
                THEN Continue(fs) /\ chunk' = chunk \o bs
                ELSE Raise(AdvanceResult(r)) /\ chunk' = chunk
    ELSE /\ Raise(err)
         /\ UNCHANGED <<lexerVars, prev_token, current_token, chunk>>

\* compile that clears the opcodes before its first token
CompilerCompile_Fresh ==
    /\ Running("compile")
    /\ LET r == Scan(src, src_index)
       IN  /\ Advance(r)
           /\ IF AdvanceResult(r) = OkUnit
              THEN Continue(<<ExpressionFrame(PTerm), Frame("compile_end")>> \o Tail(frames))
              ELSE Raise(AdvanceResult(r))
    /\ chunk' = <<>>
    /\ UNCHANGED <<vmVars, nlines, history, guiVars>>

\* Compile for Compiler: compile, up to the call of expression
CompilerCompile ==
    /\ Running("compile")
    /\ LET r == Scan(src, src_index)
       IN  /\ Advance(r)
           /\ IF AdvanceResult(r) = OkUnit
              THEN Continue(<<ExpressionFrame(PTerm), Frame("compile_end")>> \o Tail(frames))
              ELSE Raise(AdvanceResult(r))
    /\ UNCHANGED <<chunk, vmVars, nlines, history, guiVars>>

\* compile that returns Ok whatever token is left
CompileEnd_Ok ==
    /\ Running("compile_end")
    /\ frames' = Tail(frames)
    /\ compiled' = OkUnit
    /\ UNCHANGED <<pc, lexerVars, prev_token, current_token, chunk, vmVars, nlines, history, guiVars>>

\* Compile for Compiler: compile, after expression returned Ok
CompileEnd ==
    /\ Running("compile_end")
    /\ frames' = Tail(frames)
    /\ compiled' = IF current_token # None THEN InvalidToken(current_token) ELSE OkUnit
    /\ UNCHANGED <<pc, lexerVars, prev_token, current_token, chunk, vmVars, nlines, history, guiVars>>

\* Compiler::expression, from its start to the call its prefix match makes
Expression ==
    /\ Running("expression")
    /\ LET r == Scan(src, src_index)
           p == Head(frames).p
           rest == <<LoopFrame(p)>> \o Tail(frames)
           prev == current_token
           cur == IF IsToken(r.r) THEN r.r ELSE None
       IN  /\ Advance(r)
           /\ IF AdvanceResult(r) # OkUnit
                THEN Raise(AdvanceResult(r)) /\ chunk' = chunk
              ELSE IF prev = None
                THEN Continue(rest) /\ chunk' = chunk
              ELSE IF prev.t = "Minus"
                THEN Continue(<<ExpressionFrame(PUnary), Frame("emit_unary")>> \o rest)
                     /\ chunk' = chunk
              ELSE IF prev.t = "Number"
                THEN IF IsErr(emit_number(prev.digits))
                     THEN Raise(emit_number(prev.digits)) /\ chunk' = chunk
                     ELSE Continue(rest) /\ chunk' = chunk \o emit_number(prev.digits).v
              ELSE IF prev.t = "LeftParen"
                THEN Continue(<<ExpressionFrame(PTerm), Frame("parse_group")>> \o rest)
                     /\ chunk' = chunk
              ELSE IF prev.t = "Func"
                THEN Continue(<<ParseFnFrame(prev.f)>> \o rest) /\ chunk' = chunk
              ELSE IF prev.t = "Ans"
                THEN Continue(rest) /\ chunk' = chunk \o <<OpAns>>
              ELSE Raise(InvalidTokenBefore(prev, cur)) /\ chunk' = chunk
    /\ UNCHANGED <<vmVars, nlines, history, guiVars>>

\* Compiler::expression, one turn of its while loop up to the call of
\* parse_binary, or its return
ExpressionLoop ==
    /\ Running("loop")
    /\ IF current_token # None /\ priority(current_token) >= Head(frames).p
       THEN LET r == Scan(src, src_index)
                prev == current_token
            IN  /\ Advance(r)
                /\ IF AdvanceResult(r) # OkUnit THEN Raise(AdvanceResult(r))
                   ELSE IF IsBinaryToken(prev)
                     THEN Continue(<<ExpressionFrame(PriorityNext(priority(prev))),
                                     ParseBinaryFrame(prev)>> \o frames)
                   ELSE Raise(InvalidToken(prev))
       ELSE /\ Continue(Tail(frames))
            /\ UNCHANGED <<lexerVars, prev_token, current_token>>
    /\ UNCHANGED <<chunk, vmVars, nlines, history, guiVars>>

\* Compiler::parse_binary, after expression returned Ok
ParseBinary ==
    /\ Running("parse_binary")
    /\ LET op == BinaryOp(Head(frames).tok)
       IN  IF IsErr(op) THEN Raise(op) /\ chunk' = chunk
           ELSE Continue(Tail(frames)) /\ chunk' = Append(chunk, op.v)
    /\ UNCHANGED <<lexerVars, prev_token, current_token, vmVars, nlines, history, guiVars>>

\* Compiler::emit_unary, after expression returned Ok
EmitUnary ==
    /\ Running("emit_unary")
    /\ Continue(Tail(frames))
    /\ chunk' = Append(chunk, OpNegate)
    /\ UNCHANGED <<lexerVars, prev_token, current_token, vmVars, nlines, history, guiVars>>

\* parse_group that does without the closing parenthesis
ParseGroup_Lenient ==
    /\ Running("parse_group")
    /\ IF current_token = RightParen
       THEN Consume(RightParen, UnterminedGroup, Tail(frames), <<>>)
       ELSE /\ Continue(Tail(frames))
            /\ UNCHANGED <<lexerVars, prev_token, current_token, chunk>>
    /\ UNCHANGED <<vmVars, nlines, history, guiVars>>

\* parse_group that pushes an opcode of its own
ParseGroup_Emitting ==
    /\ Running("parse_group")
    /\ Consume(RightParen, UnterminedGroup, Tail(frames), <<OpNegate>>)
    /\ UNCHANGED <<vmVars, nlines, history, guiVars>>

\* Compiler::parse_group, after expression returned Ok
ParseGroup ==
    /\ Running("parse_group")
    /\ Consume(RightParen, UnterminedGroup, Tail(frames), <<>>)
    /\ UNCHANGED <<vmVars, nlines, history, guiVars>>

\* Compiler::parse_fn, up to the call of expression for the first argument
CompilerParseFn ==
    /\ Running("parse_fn")
    /\ LET f == Head(frames).f
       IN  Consume(LeftParen, MissingFunctionParen,
                   <<ExpressionFrame(PTerm), ParseFnArgFrame(f, arity(f) - 1)>>
                       \o Tail(frames),
                   <<>>)
    /\ UNCHANGED <<vmVars, nlines, history, guiVars>>

\* parse_fn with one error for the comma and for the parenthesis
ParseFnArg_OneError ==
    /\ Running("parse_fn_arg")
    /\ LET f == Head(frames).f
           left == Head(frames).left
       IN  IF left > 0
           THEN Consume(Comma, MissingFunctionParen,
                        <<ExpressionFrame(PTerm), ParseFnArgFrame(f, left - 1)>>
                            \o Tail(frames),
                        <<>>)
           ELSE Consume(RightParen, MissingFunctionParen, Tail(frames),
                        <<OpFunc, FuncTypeAsU8(f)>>)
    /\ UNCHANGED <<vmVars, nlines, history, guiVars>>

\* Compiler::parse_fn, after the expression of an argument returned Ok: the
\* comma and the next argument, or the closing parenthesis and the opcode
ParseFnArg ==
    /\ Running("parse_fn_arg")
    /\ LET f == Head(frames).f
           left == Head(frames).left
       IN  IF left > 0
           THEN Consume(Comma, MissingCommaInFunctionCall,
                        <<ExpressionFrame(PTerm), ParseFnArgFrame(f, left - 1)>>
                            \o Tail(frames),
                        <<>>)
           ELSE Consume(RightParen, MissingFunctionParen, Tail(frames),
                        <<OpFunc, FuncTypeAsU8(f)>>)
    /\ UNCHANGED <<vmVars, nlines, history, guiVars>>

\* reset that leaves the opcodes where they are
CompilerReset_KeepingChunk ==
    /\ chunk' = chunk
    /\ prev_token' = None
    /\ current_token' = None

\* Compiler::reset
CompilerReset ==
    /\ chunk' = <<>>
    /\ prev_token' = None
    /\ current_token' = None

-----------------------------------------------------------------------------
(* vm.rs: the VirtualMachine.  One step of interpret's loop gives the set  *)
(* of its possible outcomes [ip, stack, res]: res is NotYet when the loop  *)
(* goes on, the error interpret returns, or the panic that ends it.        *)

\* vm::Error
DivisionByZero == Err("DivisionByZero")
EmptyStack == Err("EmptyStack")
AnsNotAvailable == Err("AnsNotAvailable")
InvalidFunctionArgs(func_type, func_args) ==
    [t |-> "Err", e |-> "InvalidFunctionArgs", func_type |-> func_type,
     func_args |-> func_args]

Outcome(ip, st, res) == [ip |-> ip, stack |-> st, res |-> res]

Top(st) == st[Len(st)]
Pop(st) == SubSeq(st, 1, Len(st) - 1)

\* parse_number that takes the first byte for the most significant
parse_number_big_endian(bytes) == from_bits(bytes)

\* vm::parse_number: res |= (b as u64) << (i * 8) over the bytes, then from_bits
parse_number(bytes) == from_bits([k \in 1..8 |-> bytes[9 - k]])

\* the byte taken for an unsigned integer
U8AsI8_unsigned(b) == b

\* transmute::<u8, i8>
U8AsI8(b) == IF b < 128 THEN b ELSE b - 256

\* load_ans that pushes 0.0 when there is no answer
load_ans_zero(ip, st, saved) ==
    IF saved # None THEN {Outcome(ip, Append(st, saved.v), NotYet)}
    ELSE {Outcome(ip, Append(st, Zero), NotYet)}

\* VirtualMachine::load_ans
load_ans(ip, st, saved) ==
    IF saved # None THEN {Outcome(ip, Append(st, saved.v), NotYet)}
    ELSE {Outcome(ip, st, AnsNotAvailable)}

\* VirtualMachine::number
number(opcodes, ip, st) ==
    IF ip + 8 > Len(opcodes)
    THEN {Outcome(ip, st, Panic("range end index out of range for slice"))}
    ELSE {Outcome(ip + 8, Append(st, parse_number(SubSeq(opcodes, ip + 1, ip + 8))), NotYet)}

\* VirtualMachine::number_i8
number_i8(opcodes, ip, st) ==
    IF ip >= Len(opcodes) THEN {Outcome(ip + 1, st, Panic("index out of bounds"))}
    ELSE {Outcome(ip + 1, Append(st, Rat(U8AsI8(opcodes[ip + 1]), 1)), NotYet)}

\* VirtualMachine::negate
negate(ip, st) ==
    IF st = <<>> THEN {Outcome(ip, st, Panic("Empty stack in negate function"))}
    ELSE {Outcome(ip, Append(Pop(st), FNeg(Top(st))), NotYet)}

\* binary with the second operand read and left on the stack
binary_one_pop(op, ip, st) ==
    IF st = <<>> THEN {Outcome(ip, st, Panic("Empty stack in binary. First operand"))}
    ELSE IF Len(st) = 1
        THEN {Outcome(ip, Pop(st), Panic("Empty stack in binary. Second operand"))}
    ELSE LET a == Top(st)
             b == Top(Pop(st))
             rest == Pop(st)
             push(ns) == {Outcome(ip, Append(rest, n), NotYet) : n \in ns}
         IN  CASE op = OpDiv ->
                    UNION {IF zero THEN {Outcome(ip, rest, DivisionByZero)}
                           ELSE push(FDiv(b, a)) : zero \in EqZero(a)}
               [] op = OpPlus -> push(FAdd(b, a))
               [] op = OpMult -> push(FMul(b, a))
               [] op = OpMinus -> push(FSub(b, a))
               [] OTHER -> {Outcome(ip, rest, Panic("Invalid binary operation"))}

\* binary that takes the first value popped for the left operand
binary_swapped(op, ip, st) ==
    IF st = <<>> THEN {Outcome(ip, st, Panic("Empty stack in binary. First operand"))}
    ELSE IF Len(st) = 1
        THEN {Outcome(ip, Pop(st), Panic("Empty stack in binary. Second operand"))}
    ELSE LET b == Top(st)
             a == Top(Pop(st))
             rest == Pop(Pop(st))
             push(ns) == {Outcome(ip, Append(rest, n), NotYet) : n \in ns}
         IN  CASE op = OpDiv ->
                    UNION {IF zero THEN {Outcome(ip, rest, DivisionByZero)}
                           ELSE push(FDiv(b, a)) : zero \in EqZero(a)}
               [] op = OpPlus -> push(FAdd(b, a))
               [] op = OpMult -> push(FMul(b, a))
               [] op = OpMinus -> push(FSub(b, a))
               [] OTHER -> {Outcome(ip, rest, Panic("Invalid binary operation"))}

\* binary that divides by zero as f64 does, without the comparison to 0.0
binary_unchecked(op, ip, st) ==
    IF st = <<>> THEN {Outcome(ip, st, Panic("Empty stack in binary. First operand"))}
    ELSE IF Len(st) = 1
        THEN {Outcome(ip, Pop(st), Panic("Empty stack in binary. Second operand"))}
    ELSE LET a == Top(st)
             b == Top(Pop(st))
             rest == Pop(Pop(st))
             push(ns) == {Outcome(ip, Append(rest, n), NotYet) : n \in ns}
         IN  CASE op = OpDiv ->
                    UNION {IF zero
                           THEN push({IF IsNaN(b) \/ SignOf(b) = 0 THEN NaN ELSE Inf(1)})
                           ELSE push(FDiv(b, a)) : zero \in EqZero(a)}
               [] op = OpPlus -> push(FAdd(b, a))
               [] op = OpMult -> push(FMul(b, a))
               [] op = OpMinus -> push(FSub(b, a))
               [] OTHER -> {Outcome(ip, rest, Panic("Invalid binary operation"))}

\* VirtualMachine::binary
binary(op, ip, st) ==
    IF st = <<>> THEN {Outcome(ip, st, Panic("Empty stack in binary. First operand"))}
    ELSE IF Len(st) = 1
        THEN {Outcome(ip, Pop(st), Panic("Empty stack in binary. Second operand"))}
    ELSE LET a == Top(st)
             b == Top(Pop(st))
             rest == Pop(Pop(st))
             push(ns) == {Outcome(ip, Append(rest, n), NotYet) : n \in ns}
         IN  CASE op = OpDiv ->
                    UNION {IF zero THEN {Outcome(ip, rest, DivisionByZero)}
                           ELSE push(FDiv(b, a)) : zero \in EqZero(a)}
               [] op = OpPlus -> push(FAdd(b, a))
               [] op = OpMult -> push(FMul(b, a))
               [] op = OpMinus -> push(FSub(b, a))
               [] OTHER -> {Outcome(ip, rest, Panic("Invalid binary operation"))}

\* function whose Sqrt pushes whatever the square root is
function_sqrt_unchecked(opcodes, ip, st) ==
    IF ip >= Len(opcodes) THEN {Outcome(ip + 1, st, Panic("index out of bounds"))}
    ELSE IF FuncTypeTryFrom(opcodes[ip + 1]) = None
        THEN {Outcome(ip + 1, st, Panic("Invalid byte function code"))}
    ELSE LET func_type == FuncTypeTryFrom(opcodes[ip + 1]).v
             arg == Top(st)
             rest == Pop(st)
             push(v) == Outcome(ip + 1, Append(rest, v), NotYet)
             invalid == Outcome(ip + 1, rest, InvalidFunctionArgs(func_type, <<arg>>))
         IN  IF st = <<>>
             THEN {Outcome(ip + 1, st,
                           Panic(IF func_type = "Pow" THEN "Missing exponent in pow"
                                 ELSE "Missing function argument (Log)"))}
             ELSE CASE func_type = "Log" ->
                         {IF IsFinite(val) THEN push(val) ELSE invalid : val \in FLn(arg)}
                    [] func_type = "Sin" -> {push(val) : val \in FSin(arg)}
                    [] func_type = "Cos" -> {push(val) : val \in FCos(arg)}
                    [] func_type = "Sqrt" -> {push(val) : val \in FSqrt(arg)}
                    [] func_type = "Pow" ->
                         IF rest = <<>>
                         THEN {Outcome(ip + 1, rest, Panic("Missing base in pow"))}
                         ELSE {Outcome(ip + 1, Append(Pop(rest), val), NotYet)
                                 : val \in FPowf(Top(rest), arg)}

\* function whose Pow takes the first value popped for the base
function_pow_swapped(opcodes, ip, st) ==
    IF ip >= Len(opcodes) THEN {Outcome(ip + 1, st, Panic("index out of bounds"))}
    ELSE IF FuncTypeTryFrom(opcodes[ip + 1]) = None
        THEN {Outcome(ip + 1, st, Panic("Invalid byte function code"))}
    ELSE LET func_type == FuncTypeTryFrom(opcodes[ip + 1]).v
             arg == Top(st)
             rest == Pop(st)
             push(v) == Outcome(ip + 1, Append(rest, v), NotYet)
             invalid == Outcome(ip + 1, rest, InvalidFunctionArgs(func_type, <<arg>>))
         IN  IF st = <<>>
             THEN {Outcome(ip + 1, st,
                           Panic(IF func_type = "Pow" THEN "Missing exponent in pow"
                                 ELSE "Missing function argument (Log)"))}
             ELSE CASE func_type = "Log" ->
                         {IF IsFinite(val) THEN push(val) ELSE invalid : val \in FLn(arg)}
                    [] func_type = "Sin" -> {push(val) : val \in FSin(arg)}
                    [] func_type = "Cos" -> {push(val) : val \in FCos(arg)}
                    [] func_type = "Sqrt" ->
                         {IF IsNaN(val) THEN invalid ELSE push(val) : val \in FSqrt(arg)}
                    [] func_type = "Pow" ->
                         IF rest = <<>>
                         THEN {Outcome(ip + 1, rest, Panic("Missing base in pow"))}
                         ELSE {Outcome(ip + 1, Append(Pop(rest), val), NotYet)
                                 : val \in FPowf(arg, Top(rest))}

\* VirtualMachine::function
function(opcodes, ip, st) ==
    IF ip >= Len(opcodes) THEN {Outcome(ip + 1, st, Panic("index out of bounds"))}
    ELSE IF FuncTypeTryFrom(opcodes[ip + 1]) = None
        THEN {Outcome(ip + 1, st, Panic("Invalid byte function code"))}
    ELSE LET func_type == FuncTypeTryFrom(opcodes[ip + 1]).v
             arg == Top(st)
             rest == Pop(st)
             push(v) == Outcome(ip + 1, Append(rest, v), NotYet)
             invalid == Outcome(ip + 1, rest, InvalidFunctionArgs(func_type, <<arg>>))
         IN  IF st = <<>>
             THEN {Outcome(ip + 1, st,
                           Panic(IF func_type = "Pow" THEN "Missing exponent in pow"
                                 ELSE "Missing function argument (Log)"))}
             ELSE CASE func_type = "Log" ->
                         {IF IsFinite(val) THEN push(val) ELSE invalid : val \in FLn(arg)}
                    [] func_type = "Sin" -> {push(val) : val \in FSin(arg)}
                    [] func_type = "Cos" -> {push(val) : val \in FCos(arg)}
                    [] func_type = "Sqrt" ->
                         {IF IsNaN(val) THEN invalid ELSE push(val) : val \in FSqrt(arg)}
                    [] func_type = "Pow" ->
                         IF rest = <<>>
                         THEN {Outcome(ip + 1, rest, Panic("Missing base in pow"))}
                         ELSE {Outcome(ip + 1, Append(Pop(rest), val), NotYet)
                                 : val \in FPowf(Top(rest), arg)}

\* the body of interpret's while loop at instruction pointer ip
Execute(opcodes, ip, st, saved) ==
    LET byte == opcodes[ip + 1]
        op == OpTryFrom(byte)
    IN  IF op = None /\ byte # OpNumberI8
        THEN {Outcome(ip + 1, st, Panic("Invalid opcode"))}
        ELSE CASE byte = OpNumber -> number(opcodes, ip + 1, st)
               [] byte = OpNumberI8 -> number_i8(opcodes, ip + 1, st)
               [] byte = OpNegate -> negate(ip + 1, st)
               [] byte \in {OpMinus, OpPlus, OpMult, OpDiv} -> binary(byte, ip + 1, st)
               [] byte = OpFunc -> function(opcodes, ip + 1, st)
               [] byte = OpAns -> load_ans(ip + 1, st, saved)

\* VirtualMachine::interpret as a whole: what it can return when it starts
\* at instruction pointer ip with the stack st
RECURSIVE Interpret(_, _, _, _)
Interpret(opcodes, ip, st, saved) ==
    IF ip >= Len(opcodes) THEN {IF st = <<>> THEN EmptyStack ELSE Ok(Top(st))}
    ELSE UNION {IF o.res = NotYet THEN Interpret(opcodes, o.ip, o.stack, saved) ELSE {o.res}
                  : o \in Execute(opcodes, ip, st, saved)}

InterpretPcs == {"interpret", "file_interpret", "vm_interpret", "gui_interpret"}

\* VirtualMachine::interpret: one turn of the while loop
InterpretStep ==
    /\ pc \in InterpretPcs
    /\ result = NotYet
    /\ instruction_pointer < Len(chunk)
    /\ \E o \in Execute(chunk, instruction_pointer, stack, ans) :
        /\ instruction_pointer' = o.ip
        /\ stack' = o.stack
        /\ result' = o.res
        /\ pc' = IF IsPanic(o.res) THEN "panicked" ELSE pc
    /\ UNCHANGED <<lexerVars, compilerVars, ans, nlines, history, guiVars>>

\* interpret that returns 0.0 when the stack is empty
InterpretReturn_Zero ==
    /\ pc \in InterpretPcs
    /\ result = NotYet
    /\ instruction_pointer >= Len(chunk)
    /\ IF stack = <<>> THEN result' = Ok(Zero) /\ stack' = stack
       ELSE result' = Ok(Top(stack)) /\ stack' = Pop(stack)
    /\ UNCHANGED <<pc, lexerVars, compilerVars, instruction_pointer, ans, nlines, history, guiVars>>

\* VirtualMachine::interpret: after the loop, self.stack.pop().ok_or(EmptyStack)
\* interpret that puts the pointer back to 0 when it returns
InterpretReturn_Rewind ==
    /\ pc \in InterpretPcs
    /\ result = NotYet
    /\ instruction_pointer >= Len(chunk)
    /\ IF stack = <<>> THEN result' = EmptyStack /\ stack' = stack
       ELSE result' = Ok(Top(stack)) /\ stack' = Pop(stack)
    /\ instruction_pointer' = 0
    /\ UNCHANGED <<pc, lexerVars, compilerVars, ans, nlines, history, guiVars>>

InterpretReturn ==
    /\ pc \in InterpretPcs
    /\ result = NotYet
    /\ instruction_pointer >= Len(chunk)
    /\ IF stack = <<>> THEN result' = EmptyStack /\ stack' = stack
       ELSE result' = Ok(Top(stack)) /\ stack' = Pop(stack)
    /\ UNCHANGED <<pc, lexerVars, compilerVars, instruction_pointer, ans, nlines, history, guiVars>>

\* reset that leaves the operand stack as it is
VmReset_KeepingStack(new_ans) ==
    /\ instruction_pointer' = 0
    /\ stack' = stack
    /\ ans' = new_ans

\* VirtualMachine::reset
VmReset(new_ans) ==
    /\ instruction_pointer' = 0
    /\ stack' = <<>>
    /\ ans' = new_ans

-----------------------------------------------------------------------------
(* Source texts.  A text is a sequence of one-character strings, the bytes  *)
(* of the source.                                                          *)

MaxToks == 3
MaxDepth == 2
MaxLines == 3

Text1(a) == <<a>>
Text3(a, b, c) == <<a, b, c>>
AnsText == Text3("a", "n", "s")
SinText == Text3("s", "i", "n")
PowText == Text3("p", "o", "w")
SqrtText == <<"s", "q", "r", "t">>

\* the lexemes all the short sources are made of
EvalLexemes ==
    {Text1("1"), Text1("0"), Text1("+"), Text1("-"), Text1("*"), Text1("/"),
     Text1("("), Text1(")"), Text1(","), AnsText, SqrtText}

Join(t, l) == IF t = <<>> THEN l ELSE IF l = <<>> THEN t ELSE t \o <<" ">> \o l

\* every source of at most n lexemes, one space between two lexemes
RECURSIVE ShortTexts(_)
ShortTexts(n) ==
    IF n = 0 THEN {<<>>}
    ELSE ShortTexts(n - 1) \cup {Join(t, l) : t \in ShortTexts(n - 1), l \in EvalLexemes}

\* expressions built to a nesting depth: unary minus, groups, calls of one and
\* of two arguments, binary operators of both priorities
ExprAtoms == {Text1("1"), AnsText}
Wrapped(e) ==
    {Join(Text1("-"), e),
     Join(Text1("("), Join(e, Text1(")"))),
     Join(SinText, Join(Text1("("), Join(e, Text1(")"))))}
Combined(a, b) ==
    {Join(a, Join(Text1("+"), b)),
     Join(a, Join(Text1("/"), b)),
     Join(PowText, Join(Text1("("), Join(a, Join(Text1(","), Join(b, Text1(")"))))))}

RECURSIVE ExprTexts(_)
ExprTexts(d) ==
    IF d = 0 THEN ExprAtoms
    ELSE LET E == ExprTexts(d - 1)
         IN  E \cup UNION {Wrapped(e) : e \in E}
               \cup UNION {Combined(a, b) \cup Combined(b, a) : a \in E, b \in ExprAtoms}

\* the literals of the compiler's tests and others: integers small and not,
\* a fraction with an exact double and one without
Literals ==
    {Text1("1"), Text1("2"), Text1("3"), Text1("4"), Text3("2", "0", "0"),
     Text3("1", ".", "5"), Text3("0", ".", "1")}

\* one literal, and two in a row as test_sum_of_two_numbers and test_pow have them
LiteralTexts ==
    Literals
      \cup {Join(a, Join(Text1("+"), b)) : a \in Literals, b \in Literals}
      \cup {Join(PowText, Join(Text1("("), Join(a, Join(Text1(","), Join(b, Text1(")"))))))
               : a \in Literals, b \in Literals}

\* every text of at most n of the lexemes ls, one space between two lexemes
RECURSIVE TextsOver(_, _)
TextsOver(ls, n) ==
    IF n = 0 THEN {<<>>}
    ELSE TextsOver(ls, n - 1) \cup {Join(t, l) : t \in TextsOver(ls, n - 1), l \in ls}

\* two binary operators in a row between three operands, and a unary minus
\* before either operand of one binary operator
Operands == {Text1("4"), Text1("2"), AnsText}
BinaryLexemes == {Text1("+"), Text1("-"), Text1("*"), Text1("/")}
OperatorTexts ==
    {Join(a, Join(o1, Join(b, Join(o2, c))))
        : a \in Operands, b \in Operands, c \in Operands,
          o1 \in BinaryLexemes, o2 \in BinaryLexemes}
      \cup {Join(Text1("-"), Join(a, Join(o, b)))
               : a \in Operands, b \in Operands, o \in BinaryLexemes}
      \cup {Join(a, Join(o, Join(Text1("-"), b)))
               : a \in Operands, b \in Operands, o \in BinaryLexemes}

\* sources of whitespace only
BlankTexts == {Text1(" "), Text1("\n"), Text3(" ", "\t", "\n"), Text3("\r", "\n", "\f")}

\* calls and groups, closed well and badly: what follows a function name, the
\* opening parenthesis of a call or of a group, or the comma of a pow call
CallLexemes == {Text1("1"), Text1("("), Text1(")"), Text1(","), Text1("+"), SinText}
CallTexts ==
    {Join(f, t) : f \in {SqrtText, PowText}, t \in TextsOver(CallLexemes, 1)}
      \cup {Join(f, Join(Text1("("), t))
               : f \in {SqrtText, PowText, <<"1", " ", "+">>, <<>>}, t \in TextsOver(CallLexemes, 3)}
      \cup {Join(PowText, Join(Text1("("), Join(Text1("1"), Join(Text1(","), t))))
               : t \in TextsOver(CallLexemes, 2)}
      \cup {Join(f, Join(Text1("("), Join(<<"s", "i", "n", "(", "1", ")">>, t)))
               : f \in {SqrtText, PowText}, t \in TextsOver(CallLexemes, 1)}

\* a token no operand starts with, where an operand has to start, before each
\* kind of token and before the end of the input
FunctionTexts == {SqrtText, <<"l", "o", "g">>, SinText, <<"c", "o", "s">>, PowText}
MisplacedTexts ==
    {Join(p, Join(x, n))
        : p \in {<<>>, <<"1", " ", "+">>, Text1("("), <<"-">>},
          x \in {Text1(")"), Text1(","), Text1("+"), Text1("*"), Text1("/")},
          n \in FunctionTexts \cup {<<>>, <<"1", ".", "5">>, AnsText, Text1("("), Text1("-")}}

\* sources of the integration tests: test_unterminated_group, test_empty_group
TestTexts ==
    {<<"1", " ", "+", " ", "(", "2", " ", "+", " ", "1", " ", "*", " ", "(", "1", " ", "-",
       " ", "3", ")">>,
     <<"1", " ", "+", " ", "(", ")">>}

\* an operand, then a token no binary operator: after a whole expression, a
\* negated operand, the right operand of a product, an argument of a call
LeftoverTexts ==
    {Join(p, Join(x, n))
        : p \in {Text1("1"), AnsText, <<"-", " ", "1">>, <<"1", " ", "*", " ", "2">>,
                 <<"p", "o", "w", " ", "(", " ", "1", " ", ",", " ", "2">>},
          x \in FunctionTexts \cup {Text1("("), Text1(")"), Text1(","), Text1("2"), AnsText},
          n \in {<<>>, Text1("2"), Text1("x")}}

\* bytes the lexer refuses, where the compiler asks for each of its tokens
LexErrorTexts ==
    {Join(p, b)
        : p \in {<<>>, Text1("1"), <<"1", " ", "+">>, <<"1", " ", "*">>, Text1("("),
                 Text1("-"), SqrtText, <<"s", "q", "r", "t", " ", "(">>,
                 <<"p", "o", "w", " ", "(", " ", "1", " ", ",">>, <<"(", " ", "1">>,
                 <<"(", " ", "1", " ", ")">>},
          b \in {Text1("x"), Text1("$"), <<"1", ".", "4", ".", "e", "1">>,
                 <<"2", "e", "e">>, <<"1", ".", "x">>}}

\* calls of each function on arguments of each sign, on ans and on an
\* expression
ArgumentTexts == {Text1("4"), Text1("0"), <<"-", " ", "1">>, <<"-", " ", "0">>, AnsText,
                  <<"1", " ", "+", " ", "3">>}
FunctionCallTexts ==
    {Join(f, Join(Text1("("), Join(a, Text1(")"))))
        : f \in FunctionTexts \ {PowText}, a \in ArgumentTexts}
      \cup {Join(PowText, Join(Text1("("), Join(a, Join(Text1(","), Join(b, Text1(")"))))))
               : a \in ArgumentTexts, b \in ArgumentTexts}

EvalSources ==
    ShortTexts(MaxToks) \cup ExprTexts(MaxDepth) \cup LiteralTexts \cup OperatorTexts
      \cup BlankTexts \cup CallTexts \cup MisplacedTexts \cup TestTexts
      \cup LeftoverTexts \cup LexErrorTexts \cup FunctionCallTexts

\* VirtualMachine::new(ans): the saved answers a machine is made with
SavedAnswers == {None, Some(Rat(2, 1))}

-----------------------------------------------------------------------------
(* app.rs run_file and the integration tests' evaluation of one source:    *)
(* compile, then interpret the opcodes on a new machine.                   *)

InitCompiler ==
    /\ prev_token = None
    /\ current_token = None
    /\ chunk = <<>>
    /\ frames = <<Frame("compile")>>
    /\ compiled = NotYet

InitVm(saved) ==
    /\ instruction_pointer = 0
    /\ stack = <<>>
    /\ ans = saved
    /\ result = NotYet

\* what an evaluation that came to its end leaves to be seen: the source, the
\* answer the machine held, the opcodes, what compile and interpret returned
Finished ==
    [src |-> src, before |-> ans, chunk |-> chunk, compiled |-> compiled,
     result |-> result]

InitEval ==
    /\ pc = "file_compile"
    /\ src \in EvalSources
    /\ src_index = 0
    /\ scanned = <<>>
    /\ InitCompiler
    /\ \E saved \in SavedAnswers : InitVm(saved)
    /\ nlines = 0
    /\ history = {}
    /\ expressions = <<>>
    /\ expression_index = 0

\* run_file: compiler.compile(&mut lexer)? returned Ok, interpret is called
RunFileInterpret ==
    /\ pc = "file_compile"
    /\ frames = <<>>
    /\ compiled = OkUnit
    /\ pc' = "file_interpret"
    /\ UNCHANGED <<lexerVars, compilerVars, vmVars, nlines, history, guiVars>>

NextEval ==
    \/ CompilerCompile
    \/ CompileEnd
    \/ Expression
    \/ ExpressionLoop
    \/ ParseBinary
    \/ EmitUnary
    \/ ParseGroup
    \/ CompilerParseFn
    \/ ParseFnArg
    \/ RunFileInterpret
    \/ InterpretStep
    \/ InterpretReturn

SpecEval == InitEval /\ [][NextEval]_vars

-----------------------------------------------------------------------------
(* One source evaluated as run_file does, then the same source between     *)
(* parentheses evaluated the same way: a new lexer, a new compiler and a   *)
(* new machine holding the same answer.                                    *)

GroupSources ==
    ShortTexts(MaxToks - 1) \cup ExprTexts(MaxDepth) \cup Literals
      \cup {<<"1", ".">>, <<"1", ".", "+", "1">>, <<"1", "+", "1", ".">>}

InitGroup ==
    /\ pc = "file_compile"
    /\ src \in GroupSources
    /\ src_index = 0
    /\ scanned = <<>>
    /\ InitCompiler
    /\ \E saved \in SavedAnswers : InitVm(saved)
    /\ nlines = 0
    /\ history = {}
    /\ expressions = <<>>
    /\ expression_index = 0

\* the evaluation of the source is over (compile failed, or interpret
\* returned): what it gave is kept and "(" + source + ")" is evaluated
EvaluateGrouped ==
    /\ history = {}
    /\ \/ pc = "file_compile" /\ frames = <<>> /\ IsErr(compiled)
       \/ pc = "file_interpret" /\ result # NotYet
    /\ history' = {Finished}
    /\ UNCHANGED guiVars
    /\ pc' = "file_compile"
    /\ src' = <<"(">> \o src \o <<")">>
    /\ src_index' = 0
    /\ scanned' = <<>>
    /\ prev_token' = None
    /\ current_token' = None
    /\ chunk' = <<>>
    /\ frames' = <<Frame("compile")>>
    /\ compiled' = NotYet
    /\ instruction_pointer' = 0
    /\ stack' = <<>>
    /\ result' = NotYet
    /\ UNCHANGED <<ans, nlines>>

NextGroup ==
    \/ CompilerCompile
    \/ CompileEnd
    \/ Expression
    \/ ExpressionLoop
    \/ ParseBinary
    \/ EmitUnary
    \/ ParseGroup
    \/ CompilerParseFn
    \/ ParseFnArg
    \/ RunFileInterpret
    \/ InterpretStep
    \/ InterpretReturn
    \/ EvaluateGrouped

SpecGroup == InitGroup /\ [][NextGroup]_vars

-----------------------------------------------------------------------------
(* The machine alone: interpret called on opcodes written by hand, as      *)
(* vm_tests do.                                                            *)

\* the instructions the programs are made of: small integers (-15 is the one
\* of test_i8_opcode), the binary operators, Negate, Ans, sqrt and pow
MaxInstrs == 3
I8Bytes == {0, 2, 3, 241}
VmInstructions ==
    {<<OpNumberI8, b>> : b \in I8Bytes}
      \cup {<<op>> : op \in {OpPlus, OpMinus, OpMult, OpDiv, OpNegate, OpAns}}
      \cup {<<OpFunc, FuncTypeAsU8(f)>> : f \in {"Sqrt", "Pow"}}

RECURSIVE InstructionTexts(_)
InstructionTexts(n) ==
    IF n = 0 THEN {<<>>}
    ELSE InstructionTexts(n - 1)
           \cup {t \o ins : t \in InstructionTexts(n - 1), ins \in VmInstructions}

\* the payloads of Number, least significant byte first: the two bytes that
\* hold the sign and the exponent take each kind of value, the six below
\* them are all zero, all ones or mixed
PayloadBytes ==
    {low \o <<b7, b8>>
        : low \in {<<0, 0, 0, 0, 0, 0>>, <<255, 255, 255, 255, 255, 255>>,
                   <<1, 0, 0, 0, 0, 0>>, <<1, 2, 3, 4, 5, 6>>, <<0, 0, 0, 0, 0, 8>>},
          b7 \in {0, 1, 15, 16, 240, 248, 255},
          b8 \in {0, 1, 63, 64, 127, 128, 191, 192, 255}}

\* each kind of f64 as the argument of each function: zeros, numbers of
\* both signs, infinities, NaN
SpecialValues ==
    {Zero, NegZero, One, Rat(-1, 1), Rat(4, 1), Rat(1, 2), Inf(1), Inf(-1), NaN}
FunctionPrograms ==
    {<<OpNumber>> \o NumberPayload(a) \o <<OpFunc, FuncTypeAsU8(f)>>
        : a \in SpecialValues, f \in {"Sqrt", "Log", "Sin", "Cos", "Pow"}}
      \cup {<<OpNumber>> \o NumberPayload(b) \o <<OpNumber>> \o NumberPayload(a)
               \o <<OpFunc, FuncTypeAsU8("Pow")>>
               : a \in SpecialValues, b \in SpecialValues}

\* the programs: up to MaxInstrs instructions; one Number with each payload;
\* each byte as a tag, eight zero bytes after it; each byte as the payload
\* of NumberI8; each byte as the function id of Func; the functions on each
\* kind of f64
VmPrograms ==
    InstructionTexts(MaxInstrs) \cup FunctionPrograms
      \cup {<<OpNumber>> \o bytes : bytes \in PayloadBytes}
      \cup {<<b, 0, 0, 0, 0, 0, 0, 0, 0>> : b \in 0..255}
      \cup {<<OpNumberI8, b>> : b \in 0..255}
      \cup {<<OpNumberI8, 3, OpNumberI8, 2, OpFunc, b>> : b \in 0..255}

InitMachine ==
    /\ pc = "vm_interpret"
    /\ src = <<>>
    /\ src_index = 0
    /\ scanned = <<>>
    /\ prev_token = None
    /\ current_token = None
    /\ chunk \in VmPrograms
    /\ frames = <<>>
    /\ compiled = NotYet
    /\ \E saved \in SavedAnswers : InitVm(saved)
    /\ nlines = 0
    /\ history = {}
    /\ expressions = <<>>
    /\ expression_index = 0

\* the calls of interpret one machine gets with no reset between
MaxInterprets == 3

\* vm.interpret(opcodes) called again after it returned, with no reset: what
\* the call before returned is kept in history, nlines counts the calls that
\* returned since the machine was made or reset
InterpretAgain ==
    /\ pc = "vm_interpret"
    /\ result # NotYet
    /\ nlines + 1 < MaxInterprets
    /\ result' = NotYet
    /\ history' = {Finished}
    /\ UNCHANGED guiVars
    /\ nlines' = nlines + 1
    /\ UNCHANGED <<pc, lexerVars, compilerVars, instruction_pointer, stack, ans>>

\* vm.reset(ans) after interpret returned, before the next call
ResetMachine ==
    /\ pc = "vm_interpret"
    /\ result # NotYet
    /\ \E new_ans \in SavedAnswers : VmReset(new_ans)
    /\ result' = NotYet
    /\ history' = {}
    /\ UNCHANGED guiVars
    /\ nlines' = 0
    /\ UNCHANGED <<pc, lexerVars, compilerVars>>

NextVm ==
    \/ InterpretStep
    \/ InterpretReturn

SpecVm == InitMachine /\ [][NextVm]_vars

\* the machine alone, interpret called again and again on the same opcodes,
\* with a reset between two calls or none
NextVmAgain ==
    \/ InterpretStep
    \/ InterpretReturn
    \/ InterpretAgain
    \/ ResetMachine

SpecVmAgain == InitMachine /\ [][NextVmAgain]_vars

-----------------------------------------------------------------------------
(* The lexer alone: scan called again and again on one buffer, as the      *)
(* lexer's tests do.                                                       *)

\* what the buffers are made of: bytes of numbers, operators, a blank, a byte
\* no token starts with, keywords and beginnings of keywords
ScanPieces ==
    {Text1("1"), Text1("2"), Text1("."), Text1("e"), Text1("-"), Text1("+"),
     Text1("*"), Text1("/"), Text1(" "), Text1("("), Text1("x"), Text1("a"),
     AnsText, <<"s", "i">>, <<"s", "q", "r">>, <<"c", "o">>, PowText, Text1("l")}

RECURSIVE ScanSources(_)
ScanSources(n) ==
    IF n = 0 THEN {<<>>}
    ELSE ScanSources(n - 1) \cup {t \o l : t \in ScanSources(n - 1), l \in ScanPieces}

\* every text of at most n of the bytes cs
RECURSIVE Strings(_, _)
Strings(cs, n) ==
    IF n = 0 THEN {<<>>}
    ELSE Strings(cs, n - 1) \cup {t \o <<c>> : t \in Strings(cs, n - 1), c \in cs}

\* buffers that start with a digit and go on with the bytes number mode
\* tells apart, a blank and a byte of no token among them; the buffer of
\* test_invalid_number
MaxNumberTail == 4
NumberTexts ==
    {<<"1">> \o t : t \in Strings({"1", ".", "e", "-", " ", "x"}, MaxNumberTail)}
      \cup {<<"1", ".", "4", ".", "e", "1">>}

\* each keyword whole, after blanks or none, before the end of the buffer, a
\* parenthesis, a literal or a byte of no token
KeywordTexts ==
    {b \o k \o t
        : b \in {<<>>, Text1(" "), <<" ", "1", "2", " ">>},
          k \in FunctionTexts \cup {AnsText},
          t \in {<<>>, Text1("("), <<" ", "1", "2">>, Text1("x")}}

InitScan ==
    /\ pc = "scan"
    /\ src \in ScanSources(MaxPieces) \cup NumberTexts \cup BlankTexts
                 \cup {Text1("1") \o b \o Text1("+") \o b : b \in BlankTexts}
                 \cup KeywordTexts
    /\ src_index = 0
    /\ scanned = <<>>
    /\ prev_token = None
    /\ current_token = None
    /\ chunk = <<>>
    /\ frames = <<>>
    /\ compiled = NotYet
    /\ InitVm(None)
    /\ nlines = 0
    /\ history = {}
    /\ expressions = <<>>
    /\ expression_index = 0

\* Scan for Lexer: one call of scan
LexerScan ==
    /\ pc = "scan"
    /\ Len(scanned) < MaxScans
    /\ LET r == Scan(src, src_index)
       IN  /\ scanned' = Append(scanned, r.r)
           /\ src_index' = r.i
           /\ pc' = IF IsPanic(r.r) THEN "panicked" ELSE pc
    /\ UNCHANGED <<src, compilerVars, vmVars, nlines, history, guiVars>>

NextScan == LexerScan

SpecScan == InitScan /\ [][NextScan]_vars

-----------------------------------------------------------------------------
(* app.rs run_repl: one compiler and one machine for all the lines.        *)

Line(t) == t \o <<"\n">>

\* the lines typed at the prompt
ReplLines ==
    {Line(<<>>),
     Line(Text1("1")),
     Line(AnsText),
     Line(Join(Text1("1"), Join(Text1("/"), Text1("0")))),
     Line(Join(Text1("1"), Text1("+"))),
     Line(Text1(")")),
     Line(Text1("x")),
     Line(Join(Text1("-"), Join(Text1("("), Join(AnsText, Text1(")"))))),
     Line(Join(SqrtText, Join(Text1("("), Join(Text1("-"), Join(Text1("1"), Text1(")")))))),
     Line(Join(PowText, Join(Text1("("), Join(Text1("2"), Join(Text1(","),
          Join(Text1("1"), Join(Text1(")"), Join(Text1("*"), AnsText)))))))),
     Line(Text3("2", "+", "3")),
     Line(AnsText \o Text1("*") \o Text1("2"))}

Init ==
    /\ pc = "read"
    /\ src = <<>>
    /\ src_index = 0
    /\ scanned = <<>>
    /\ prev_token = None
    /\ current_token = None
    /\ chunk = <<>>
    /\ frames = <<>>
    /\ compiled = NotYet
    /\ InitVm(None)
    /\ nlines = 0
    /\ history = {}
    /\ expressions = <<>>
    /\ expression_index = 0

\* run_repl: read_line, the skip of an empty line, Lexer::new and the call of
\* compile
ReplReadLine ==
    /\ pc = "read"
    /\ nlines < MaxLines
    /\ nlines' = nlines + 1
    /\ \E input \in ReplLines :
        /\ src' = input
        /\ src_index' = 0
        /\ scanned' = <<>>
        /\ compiled' = NotYet
        /\ result' = NotYet
        /\ IF input = Line(<<>>)
           THEN pc' = "read" /\ frames' = <<>>
           ELSE pc' = "compile" /\ frames' = <<Frame("compile")>>
    /\ UNCHANGED <<prev_token, current_token, chunk, instruction_pointer, stack, ans,
                   history, guiVars>>

\* run_repl: compile returned Err: compiler.reset(); continue
ReplCompileError ==
    /\ pc = "compile"
    /\ frames = <<>>
    /\ IsErr(compiled)
    /\ CompilerReset
    /\ pc' = "read"
    /\ history' = history \cup {Finished}
    /\ UNCHANGED guiVars
    /\ UNCHANGED <<lexerVars, frames, compiled, vmVars, nlines>>

\* run_repl: compile returned Ok: vm.interpret(compiler.opcodes()) is called
ReplInterpret ==
    /\ pc = "compile"
    /\ frames = <<>>
    /\ compiled = OkUnit
    /\ pc' = "interpret"
    /\ UNCHANGED <<lexerVars, compilerVars, vmVars, nlines, history, guiVars>>

\* run_repl: interpret returned: vm.reset(ans); compiler.reset()
ReplAfterInterpret ==
    /\ pc = "interpret"
    /\ result # NotYet
    /\ VmReset(IF IsErr(result) THEN None ELSE Some(result.v))
    /\ CompilerReset
    /\ pc' = "read"
    /\ history' = history \cup {Finished}
    /\ UNCHANGED guiVars
    /\ UNCHANGED <<lexerVars, frames, compiled, result, nlines>>

Next ==
    \/ ReplReadLine
    \/ CompilerCompile
    \/ CompileEnd
    \/ Expression
    \/ ExpressionLoop
    \/ ParseBinary
    \/ EmitUnary
    \/ ParseGroup
    \/ CompilerParseFn
    \/ ParseFnArg
    \/ ReplCompileError
    \/ ReplInterpret
    \/ InterpretStep
    \/ InterpretReturn
    \/ ReplAfterInterpret

Spec == Init /\ [][Next]_vars

-----------------------------------------------------------------------------
(* What the claims speak of: the tokens of a source, the expression        *)
(* grammar, the instructions of an opcode buffer.                          *)

\* the tokens scan yields on buf from cursor i up to Eof; a scan that fails
\* ends the sequence with its error
RECURSIVE LexFrom(_, _)
LexFrom(buf, i) ==
    LET r == Scan(buf, i)
    IN  IF r.r = Eof THEN <<>>
        ELSE IF IsToken(r.r) THEN <<r.r>> \o LexFrom(buf, r.i)
        ELSE <<r.r>>

LexAll(buf) == LexFrom(buf, 0)

AllTokens(toks) == \A k \in DOMAIN toks : IsToken(toks[k])

TokAt(toks, i) == IF i \in DOMAIN toks THEN toks[i] ELSE None

\* The expression grammar: each operator gives the positions where a phrase
\* that starts at position i of toks can end (the position after its last
\* token).
\*   expr    := term (("+"|"-") term)*
\*   term    := factor (("*"|"/") factor)*
\*   factor  := unary | func
\*   unary   := "-" unary | primary
\*   primary := NUMBER | "ans" | "(" expr ")"
\*   func    := FNAME "(" expr ("," expr)* ")"   with arity(FNAME) arguments
GrammarArity(f) == IF f = "Pow" THEN 2 ELSE 1

RECURSIVE ExprEnds(_, _), ExprTail(_, _), TermEnds(_, _), TermTail(_, _),
          FactorEnds(_, _), UnaryEnds(_, _), PrimaryEnds(_, _), FuncEnds(_, _),
          ArgsEnds(_, _, _)

PrimaryEnds(toks, i) ==
    LET tok == TokAt(toks, i)
    IN  IF tok.t \in {"Number", "Ans"} THEN {i + 1}
        ELSE IF tok.t = "LeftParen"
            THEN {j + 1 : j \in {e \in ExprEnds(toks, i + 1) : TokAt(toks, e).t = "RightParen"}}
        ELSE {}

UnaryEnds(toks, i) ==
    IF TokAt(toks, i).t = "Minus" THEN UnaryEnds(toks, i + 1) ELSE PrimaryEnds(toks, i)

\* n more arguments from position i, a comma after each but the last
ArgsEnds(toks, i, n) ==
    IF n = 1 THEN ExprEnds(toks, i)
    ELSE UNION {ArgsEnds(toks, e + 1, n - 1)
                  : e \in {x \in ExprEnds(toks, i) : TokAt(toks, x).t = "Comma"}}

FuncEnds(toks, i) ==
    IF TokAt(toks, i).t = "Func" /\ TokAt(toks, i + 1).t = "LeftParen"
    THEN {e + 1 : e \in {x \in ArgsEnds(toks, i + 2, GrammarArity(toks[i].f))
                           : TokAt(toks, x).t = "RightParen"}}
    ELSE {}

FactorEnds(toks, i) == UnaryEnds(toks, i) \cup FuncEnds(toks, i)

TermTail(toks, j) ==
    {j} \cup (IF TokAt(toks, j).t \in {"Mult", "Div"}
              THEN UNION {TermTail(toks, e) : e \in FactorEnds(toks, j + 1)}
              ELSE {})

TermEnds(toks, i) == UNION {TermTail(toks, e) : e \in FactorEnds(toks, i)}

ExprTail(toks, j) ==
    {j} \cup (IF TokAt(toks, j).t \in {"Plus", "Minus"}
              THEN UNION {ExprTail(toks, e) : e \in TermEnds(toks, j + 1)}
              ELSE {})

ExprEnds(toks, i) == UNION {ExprTail(toks, e) : e \in TermEnds(toks, i)}

\* toks, all of it, is an expr
Derivable(toks) == AllTokens(toks) /\ (Len(toks) + 1) \in ExprEnds(toks, 1)

\* The bytes an instruction takes with its tag, 0 for a byte that is no tag
InstructionLen(tag) ==
    IF tag = OpNumber THEN 9
    ELSE IF tag \in {OpNumberI8, OpFunc} THEN 2
    ELSE IF tag \in {OpPlus, OpMinus, OpMult, OpDiv, OpNegate, OpAns} THEN 1
    ELSE 0

\* the instructions of bytes from offset at (from 0) on, each with its offset,
\* its tag and its payload; what is no instruction (a byte that is no tag, a
\* payload cut short, a function id that is none) ends the sequence as tag -1
RECURSIVE Instructions(_, _)
Instructions(bytes, at) ==
    IF at >= Len(bytes) THEN <<>>
    ELSE LET tag == bytes[at + 1]
             n == InstructionLen(tag)
             payload == SubSeq(bytes, at + 2, at + n)
         IN  IF n = 0 \/ at + n > Len(bytes) THEN <<[at |-> at, tag |-> -1, payload |-> <<>>]>>
             ELSE IF tag = OpFunc /\ FuncTypeTryFrom(payload[1]) = None
                 THEN <<[at |-> at, tag |-> -1, payload |-> <<>>]>>
             ELSE <<[at |-> at, tag |-> tag, payload |-> payload]>>
                    \o Instructions(bytes, at + n)

WellFormed(bytes) == \A k \in DOMAIN Instructions(bytes, 0) : Instructions(bytes, 0)[k].tag # -1

IsNumberToken(tok) == tok.t = "Number"
IsLiteralInstruction(ins) == ins.tag \in {OpNumber, OpNumberI8}

\* the Number tokens scanned so far, the value of a literal, the instructions
\* of the buffer that load a literal
ScannedLiterals == SelectSeq(scanned, IsNumberToken)
LiteralValue(tok) == ParseF64(tok.digits).v
LiteralInstructions == SelectSeq(Instructions(chunk, 0), IsLiteralInstruction)

\* compile has returned
Compiled == frames = <<>> /\ compiled # NotYet
CompiledOk == frames = <<>> /\ compiled = OkUnit

-----------------------------------------------------------------------------
(* The claims.                                                             *)

\* C1: for every source on which compile returns Ok, interpret on the emitted
\* opcodes, with or without a saved answer, never aborts (no operand-stack
\* underflow, no undecodable opcode or function id, no read past the end):
\* it returns a number or one of DivisionByZero, EmptyStack,
\* InvalidFunctionArgs, AnsNotAvailable.
C1_InterpretNeverAborts ==
    CompiledOk =>
        /\ ~IsPanic(result)
        /\ result.t \in {"NotYet", "Ok", "Err"}
        /\ result.t = "Err" =>
             result.e \in {"DivisionByZero", "EmptyStack", "InvalidFunctionArgs",
                           "AnsNotAvailable"}

\* C2: in the REPL a line whose evaluation fails, with a compile error or with
\* a VM error, leaves the saved answer as it was before the line.
C2_FailedLineKeepsAns ==
    [][(\/ (pc = "compile" /\ pc' = "read")
        \/ (pc = "interpret" /\ pc' = "read" /\ IsErr(result)))
       => ans' = ans]_vars

\* the encoding rule of C3 for a literal of value v: NumberI8 and one signed
\* byte when v is an integer in -128..127, else Number and the 8 bytes
IsSmallInteger(v) == v.t = "rat" /\ v.d = 1 /\ v.n >= -128 /\ v.n <= 127
I8AsU8(n) == IF n < 0 THEN n + 256 ELSE n

\* C3: for every Number token whose digits decode to n, compile emits NumberI8
\* (tag 8) and one signed byte holding n if and only if n is an integer with
\* -128 <= n <= 127; in every other case Number (tag 0) and 8 payload bytes.
C3_SmallIntegersAreNumberI8 ==
    CompiledOk =>
        /\ Len(LiteralInstructions) = Len(ScannedLiterals)
        /\ \A k \in DOMAIN LiteralInstructions :
             LET v == LiteralValue(ScannedLiterals[k])
                 ins == LiteralInstructions[k]
             IN  IF IsSmallInteger(v)
                 THEN ins.tag = OpNumberI8 /\ ins.payload = <<I8AsU8(v.n)>>
                 ELSE ins.tag = OpNumber /\ parse_number(ins.payload) = v

\* C4: every numeric literal, small integers such as 1, 2, 3, 4 included, is
\* compiled to a 9-byte instruction, tag Number (0) and 8 payload bytes that
\* decode to the value of the literal; the k-th of the literals at the start
\* of the buffer is at offset 9*(k-1).
C4_EveryLiteralIsNineBytes ==
    CompiledOk =>
        /\ Len(LiteralInstructions) = Len(ScannedLiterals)
        /\ \A k \in DOMAIN LiteralInstructions :
             LET ins == LiteralInstructions[k]
             IN  /\ ins.tag = OpNumber
                 /\ Len(ins.payload) = 8
                 /\ parse_number(ins.payload) = LiteralValue(ScannedLiterals[k])
                 /\ (\A j \in 1..k : IsLiteralInstruction(Instructions(chunk, 0)[j]))
                      => ins.at = 9 * (k - 1)

C4_Witness ==
    /\ CompiledOk
    /\ ScannedLiterals = <<Number(Text1("3")), Number(Text3("0", ".", "1"))>>
    /\ Len(chunk) = 20
    /\ chunk[10] = OpNumber

\* C5: after every step of a compile that started from an empty buffer, and
\* when it has returned, the buffer is a concatenation of complete
\* instructions: each tag is a valid opcode with exactly its payload after it
\* (8 bytes after Number, 1 after NumberI8, a function id 0..4 after Func,
\* nothing after Plus, Minus, Mult, Div, Negate, Ans).
C5_BufferIsWholeInstructions == WellFormed(chunk)

C5_Witness ==
    /\ Compiled
    /\ IsErr(compiled)
    /\ \E k \in DOMAIN Instructions(chunk, 0) : Instructions(chunk, 0)[k].tag = OpNegate
    /\ \E k \in DOMAIN Instructions(chunk, 0) : Instructions(chunk, 0)[k].tag = OpNumber

\* C6: whenever interpret returns Ok(v) for the opcodes of a successful
\* compile, the operand stack held exactly one value when the instruction
\* pointer reached the end of the stream: v is that value, and the stack is
\* empty after interpret has returned.
C6_OneValueAtTheEnd ==
    CompiledOk =>
        /\ (pc \in InterpretPcs /\ result = NotYet /\ instruction_pointer >= Len(chunk)
              /\ stack # <<>>) => Len(stack) = 1
        /\ result.t = "Ok" => stack = <<>>

C6_Witness ==
    /\ CompiledOk
    /\ result.t = "Ok"
    /\ \E k \in DOMAIN Instructions(chunk, 0) :
         Instructions(chunk, 0)[k].tag \in {OpPlus, OpDiv}
    /\ \E k \in DOMAIN Instructions(chunk, 0) : Instructions(chunk, 0)[k].tag = OpFunc

\* the sources a op b of C7, written without whitespace
DigitStrings == {Text1("1"), Text1("2"), <<"1", "2">>}
OperatorTokens == {[c |-> "+", tok |-> Plus], [c |-> "-", tok |-> Minus],
                   [c |-> "*", tok |-> Mult], [c |-> "/", tok |-> Div]}

\* C7: whitespace between tokens is optional: for digit strings a and b and
\* each op of + - * /, scanning `a op b` written without whitespace yields
\* Number(a), op, Number(b), the tokens of the source with spaces around op;
\* the literal ends at the first byte that cannot continue it and that byte
\* is left for the next scan.
C7_WhitespaceIsOptional ==
    \A a \in DigitStrings, b \in DigitStrings, op \in OperatorTokens :
        (src = a \o <<op.c>> \o b /\ Len(scanned) >= 3) =>
            /\ SubSeq(scanned, 1, 3) = <<Number(a), op.tok, Number(b)>>
            /\ SubSeq(scanned, 1, 3) = LexAll(a \o <<" ", op.c, " ">> \o b)

Keywords == {AnsText, SinText, SqrtText, <<"c", "o", "s">>, <<"l", "o", "g">>, PowText}
StartsWith(buf, w) == Len(buf) >= Len(w) /\ SubSeq(buf, 1, Len(w)) = w

\* C8: scan is total on every buffer: it returns a token or one of Eof,
\* InvalidChar, InvalidNumberFormat and never aborts; when the input starts
\* with a, s, c, l or p and with none of the keywords (also when fewer bytes
\* remain than the keyword has), scan fails with InvalidChar of that byte.
C8_ScanIsTotal ==
    /\ \A k \in DOMAIN scanned : ~IsPanic(scanned[k])
    /\ (/\ Len(scanned) >= 1
        /\ src # <<>>
        /\ src[1] \in {"a", "s", "c", "l", "p"}
        /\ \A w \in Keywords : ~StartsWith(src, w))
       => scanned[1] = InvalidChar(src[1])

\* C9: compile returns Ok only for token streams that are empty or derivable
\* from expr in the expression grammar, each function with exactly arity
\* arguments; every other stream, one that ends in a binary operator or in a
\* unary minus without operand included, makes compile return an error.
C9_OkOnlyForTheGrammar ==
    CompiledOk => (LexAll(src) = <<>> \/ Derivable(LexAll(src)))

\* C10: every token stream derivable from expr in the expression grammar, each
\* function with exactly arity arguments (nested groups, nested calls, chains
\* of unary minus, unary minus on either side of a binary operator), makes
\* compile return Ok.
C10_TheGrammarCompiles ==
    (Compiled /\ Derivable(LexAll(src))) => compiled = OkUnit

C10_Witness ==
    /\ CompiledOk
    /\ Derivable(LexAll(src))
    /\ Len(LexAll(src)) >= 7
    /\ \E k \in DOMAIN Instructions(chunk, 0) : Instructions(chunk, 0)[k].tag = OpNegate
    /\ \E k \in DOMAIN Instructions(chunk, 0) : Instructions(chunk, 0)[k].tag = OpFunc

-----------------------------------------------------------------------------
(* C11: grouping transparency.                                             *)

\* NUMBER := digits ("." digits)? ("e" "-"? digits)?
IsGrammarNumber(digits) ==
    LET ePos == Find(digits, "e")
        mant == IF ePos = 0 THEN digits ELSE SubSeq(digits, 1, ePos - 1)
        expo == IF ePos = 0 THEN <<>> ELSE SubSeq(digits, ePos + 1, Len(digits))
        expDigits == IF expo # <<>> /\ expo[1] = "-" THEN Tail(expo) ELSE expo
        dotPos == Find(mant, ".")
        int == IF dotPos = 0 THEN mant ELSE SubSeq(mant, 1, dotPos - 1)
        frac == IF dotPos = 0 THEN <<>> ELSE SubSeq(mant, dotPos + 1, Len(mant))
    IN  /\ int # <<>> /\ AllDigits(int)
        /\ dotPos # 0 => (frac # <<>> /\ AllDigits(frac))
        /\ ePos # 0 => (expDigits # <<>> /\ AllDigits(expDigits))

\* buf is an expression of the grammar, down to the form of its numbers
IsGrammarSource(buf) ==
    LET toks == LexAll(buf)
    IN  /\ Derivable(toks)
        /\ \A k \in DOMAIN toks : IsNumberToken(toks[k]) => IsGrammarNumber(toks[k].digits)

\* the evaluation under way is that of "(" + e.src + ")"
GroupOf(e) == src = <<"(">> \o e.src \o <<")">>

\* the arithmetic of the model gives one result for the opcodes and the
\* answer at hand (it gives several where it does not know the sign of a value
\* that is compared with zero)
Determined == Cardinality(Interpret(chunk, 0, <<>>, ans)) = 1

\* C11 as the claim states it: whenever compile returned Ok on a source E,
\* compile of ( E ) returns Ok with the same opcodes and interpret returns
\* the same result or error.
C11_GroupingOfAnyAcceptedSource ==
    \A e \in history :
        GroupOf(e) /\ e.compiled = OkUnit =>
            /\ Compiled => compiled = OkUnit /\ chunk = e.chunk
            /\ result # NotYet /\ Determined => result = e.result

\* C11, amended: whenever the source E is an expression of the grammar,
\* compile of E returned Ok, compile of ( E ) returns Ok with the same opcodes
\* and interpret returns the same result or error.
C11_GroupingIsTransparent ==
    \A e \in history :
        GroupOf(e) /\ IsGrammarSource(e.src) =>
            /\ e.compiled = OkUnit
            /\ Compiled => compiled = OkUnit /\ chunk = e.chunk
            /\ result # NotYet /\ Determined => result = e.result

\* a sum with a call in it, evaluated to the same number with and without the
\* parentheses
C11_Witness ==
    \E e \in history :
        /\ GroupOf(e) /\ IsGrammarSource(e.src)
        /\ pc = "file_interpret" /\ result # NotYet /\ Determined
        /\ result = e.result /\ result.t = "Ok"
        /\ \E k \in DOMAIN chunk : chunk[k] = OpFunc
        /\ \E k \in DOMAIN chunk : chunk[k] = OpPlus

-----------------------------------------------------------------------------
(* C12, C13, C14: how operands and operators of a source are laid out in   *)
(* the opcodes.                                                            *)

SourceTokens == LexAll(src)

\* an operand of one token: a literal the compiler can decode, or ans
IsOperandToken(tok) ==
    \/ tok.t = "Ans"
    \/ tok.t = "Number" /\ ParseF64(tok.digits) # None

\* code(a) for an operand of one token
OperandCode(tok) == IF tok.t = "Number" THEN emit_number(tok.digits).v ELSE <<OpAns>>

OperatorCode(tok) ==
    CASE tok.t = "Plus" -> OpPlus
      [] tok.t = "Minus" -> OpMinus
      [] tok.t = "Mult" -> OpMult
      [] tok.t = "Div" -> OpDiv

IsAdditive(tok) == tok.t \in {"Plus", "Minus"}
IsMultiplicative(tok) == tok.t \in {"Mult", "Div"}

\* the value an operand of one token stands for; ans has one when the machine
\* holds an answer
HasValue(tok) == tok.t = "Number" \/ ans # None
OperandValue(tok) == IF tok.t = "Number" THEN ParseF64(tok.digits).v ELSE ans.v

\* the values of l op r
Applied(tok, l, r) ==
    CASE tok.t = "Plus" -> FAdd(l, r)
      [] tok.t = "Minus" -> FSub(l, r)
      [] tok.t = "Mult" -> FMul(l, r)
      [] tok.t = "Div" -> FDiv(l, r)

\* the tokens a op1 b op2 c
IsTwoOperators(toks) ==
    /\ Len(toks) = 5 /\ AllTokens(toks)
    /\ IsOperandToken(toks[1]) /\ IsBinaryToken(toks[2]) /\ IsOperandToken(toks[3])
    /\ IsBinaryToken(toks[4]) /\ IsOperandToken(toks[5])

\* the values of (a op1 b) op2 c and of a op1 (b op2 c)
LeftFirst(toks) ==
    UNION {Applied(toks[4], l, OperandValue(toks[5]))
              : l \in Applied(toks[2], OperandValue(toks[1]), OperandValue(toks[3]))}
RightFirst(toks) ==
    UNION {Applied(toks[2], OperandValue(toks[1]), r)
              : r \in Applied(toks[4], OperandValue(toks[3]), OperandValue(toks[5]))}

\* C12: a op1 b op2 c with op1 and op2 both of + - or both of * / compiles to
\* code(a) code(b) OP1 code(c) OP2, and evaluates to (a op1 b) op2 c.
C12_EqualPriorityIsLeftAssociative ==
    LET T == SourceTokens
    IN  /\ IsTwoOperators(T)
        /\ (IsAdditive(T[2]) /\ IsAdditive(T[4]))
             \/ (IsMultiplicative(T[2]) /\ IsMultiplicative(T[4]))
        /\ Compiled
        => /\ compiled = OkUnit
           /\ chunk = OperandCode(T[1]) \o OperandCode(T[3]) \o <<OperatorCode(T[2])>>
                        \o OperandCode(T[5]) \o <<OperatorCode(T[4])>>
           /\ result # NotYet /\ (\A k \in {1, 3, 5} : HasValue(T[k]))
                => result.t = "Ok" /\ result.v \in LeftFirst(T)

\* a - b - c or a / b / c evaluated to a value that a op (b op c) does not have
C12_Witness ==
    LET T == SourceTokens
    IN  /\ IsTwoOperators(T)
        /\ T[2] = T[4] /\ T[2].t \in {"Minus", "Div"}
        /\ pc = "file_interpret" /\ result.t = "Ok"
        /\ result.v \in LeftFirst(T) /\ result.v \notin RightFirst(T)

\* C13: a + b * c compiles to code(a) code(b) code(c) MULT PLUS and a * b + c
\* to code(a) code(b) MULT code(c) PLUS, for either of * / and either of + -;
\* interpret returns a + (b * c) and (a * b) + c.
C13_MultiplicativeBindsTighter ==
    LET T == SourceTokens
    IN  IsTwoOperators(T) /\ Compiled =>
            /\ IsAdditive(T[2]) /\ IsMultiplicative(T[4]) =>
                /\ compiled = OkUnit
                /\ chunk = OperandCode(T[1]) \o OperandCode(T[3]) \o OperandCode(T[5])
                             \o <<OperatorCode(T[4]), OperatorCode(T[2])>>
                /\ result.t = "Ok" => result.v \in RightFirst(T)
            /\ IsMultiplicative(T[2]) /\ IsAdditive(T[4]) =>
                /\ compiled = OkUnit
                /\ chunk = OperandCode(T[1]) \o OperandCode(T[3]) \o <<OperatorCode(T[2])>>
                             \o OperandCode(T[5]) \o <<OperatorCode(T[4])>>
                /\ result.t = "Ok" => result.v \in LeftFirst(T)

\* a + b * c or a - b / c evaluated to a value that (a + b) * c does not have
C13_Witness ==
    LET T == SourceTokens
    IN  /\ IsTwoOperators(T)
        /\ IsAdditive(T[2]) /\ IsMultiplicative(T[4])
        /\ pc = "file_interpret" /\ result.t = "Ok"
        /\ result.v \in RightFirst(T) /\ result.v \notin LeftFirst(T)

\* the tokens - a op b, and a op - b
IsNegatedLeft(toks) ==
    /\ Len(toks) = 4 /\ AllTokens(toks)
    /\ toks[1].t = "Minus" /\ IsOperandToken(toks[2]) /\ IsBinaryToken(toks[3])
    /\ IsOperandToken(toks[4])
IsNegatedRight(toks) ==
    /\ Len(toks) = 4 /\ AllTokens(toks)
    /\ IsOperandToken(toks[1]) /\ IsBinaryToken(toks[2]) /\ toks[3].t = "Minus"
    /\ IsOperandToken(toks[4])

\* C14: - a op b compiles to code(a) NEGATE code(b) OP and a op - b to
\* code(a) code(b) NEGATE OP, for each of the four binary operators; interpret
\* returns (-a) op b and a op (-b).
C14_UnaryMinusBindsTightest ==
    LET T == SourceTokens
    IN  Compiled =>
            /\ IsNegatedLeft(T) =>
                /\ compiled = OkUnit
                /\ chunk = OperandCode(T[2]) \o <<OpNegate>> \o OperandCode(T[4])
                             \o <<OperatorCode(T[3])>>
                /\ result.t = "Ok" =>
                     result.v \in Applied(T[3], FNeg(OperandValue(T[2])), OperandValue(T[4]))
            /\ IsNegatedRight(T) =>
                /\ compiled = OkUnit
                /\ chunk = OperandCode(T[1]) \o OperandCode(T[4])
                             \o <<OpNegate, OperatorCode(T[2])>>
                /\ result.t = "Ok" =>
                     result.v \in Applied(T[2], OperandValue(T[1]), FNeg(OperandValue(T[4])))

\* - a + b or - a - b evaluated to a value that -(a op b) does not have
C14_Witness ==
    LET T == SourceTokens
    IN  /\ IsNegatedLeft(T) /\ IsAdditive(T[3])
        /\ pc = "file_interpret" /\ result.t = "Ok"
        /\ result.v \in Applied(T[3], FNeg(OperandValue(T[2])), OperandValue(T[4]))
        /\ \A v \in Applied(T[3], OperandValue(T[2]), OperandValue(T[4])) : result.v # FNeg(v)

-----------------------------------------------------------------------------
(* C15: what reset leaves behind.                                          *)

\* the fields of the compiler and of the machine are those of
\* Compiler::default() and of VirtualMachine::new(ans)
AsNew ==
    /\ prev_token = None /\ current_token = None /\ chunk = <<>>
    /\ instruction_pointer = 0 /\ stack = <<>>

\* C15: after compiler.reset() and vm.reset(ans), whatever came before, the
\* compiler and the machine are as new ones made with that ans; and a source
\* evaluated again, by a machine holding the same ans, gives the opcodes and
\* the result or error it gave before, the first time on the new compiler
\* and machine of the session.
C15_ResetIsANewStart ==
    /\ pc = "read" => AsNew
    /\ \A e \in history :
           pc \in {"compile", "interpret"} /\ e.src = src /\ e.before = ans =>
               /\ Compiled => compiled = e.compiled /\ chunk = e.chunk
               /\ result # NotYet => result = e.result

\* the third line is the first line again, evaluated to the same number by the
\* same opcodes, after a line that failed in the compiler or in the machine
C15_Witness ==
    /\ pc = "interpret" /\ result.t = "Ok" /\ nlines = 3
    /\ \E e \in history :
        /\ e.src = src /\ e.before = ans
        /\ e.result = result /\ e.chunk = chunk /\ chunk # <<>>
    /\ \E e \in history : IsErr(e.compiled) \/ IsErr(e.result)

-----------------------------------------------------------------------------
(* C16: the empty input.                                                   *)

\* C16: a source without a token, empty or of whitespace only, compiles with
\* Ok to no opcode at all, and interpret of these opcodes returns EmptyStack.
C16_EmptyInputCompilesAndFailsInTheMachine ==
    SourceTokens = <<>> =>
        /\ Compiled => compiled = OkUnit /\ chunk = <<>>
        /\ result # NotYet => result = EmptyStack

\* a source of whitespace only went through compile and interpret
C16_Witness ==
    /\ src # <<>> /\ SourceTokens = <<>>
    /\ pc = "file_interpret" /\ compiled = OkUnit /\ chunk = <<>> /\ result = EmptyStack

-----------------------------------------------------------------------------
(* C17: ans in the machine and through a REPL session.                     *)

\* interpret is about to execute an Ans opcode
AtAnsOpcode ==
    /\ pc \in InterpretPcs /\ result = NotYet
    /\ instruction_pointer < Len(chunk) /\ chunk[instruction_pointer + 1] = OpAns

\* the step that ends a line whose evaluation gave a number
EndsSuccessfulLine == pc = "interpret" /\ pc' = "read" /\ result.t = "Ok"
\* the step that ends a line the machine evaluated
EndsInterpretedLine == pc = "interpret" /\ pc' = "read"

\* the evaluation of `2+3` as the first line
FirstLineFive ==
    [src |-> Line(Text3("2", "+", "3")), before |-> None,
     chunk |-> emit_number(Text1("2")).v \o emit_number(Text1("3")).v \o <<OpPlus>>,
     compiled |-> OkUnit, result |-> Ok(Rat(5, 1))]

\* C17, the states: while no line of the session has evaluated to a number the
\* machine holds no answer; and `ans*2` typed after `2+3` gives 10.
C17_NoAnswerBeforeASuccess ==
    /\ (\A e \in history : e.result.t # "Ok") => ans = None
    /\ \A e \in history :
           /\ e.src = Line(Text3("2", "+", "3")) /\ e.before = None
               => e = FirstLineFive
           /\ e.src = Line(AnsText \o Text1("*") \o Text1("2")) /\ e.before = Some(Rat(5, 1))
               => e.result = Ok(Rat(10, 1))

\* C17, the steps: an Ans opcode executed without a saved answer makes
\* interpret return AnsNotAvailable with the stack as it was, and with a saved
\* answer pushes it; the end of a line evaluated to v saves v, and nothing but
\* the end of an interpreted line changes the saved answer, so ans in the next
\* line pushes v.
C17_AnsStep ==
    /\ AtAnsOpcode /\ ans = None => result' = AnsNotAvailable /\ stack' = stack
    /\ AtAnsOpcode /\ ans # None => result' = NotYet /\ stack' = Append(stack, ans.v)
    /\ EndsSuccessfulLine => ans' = Some(result.v)
    /\ ~EndsInterpretedLine => ans' = ans

\* C17: the saved answer is absent until a line succeeds, is then the value of
\* the last successful line, and is what the Ans opcode pushes.
C17_AnsIsTheLastResult == []C17_NoAnswerBeforeASuccess /\ [][C17_AnsStep]_vars

\* `2+3` gave 5 and `ans*2` on the next line gave 10
C17_Witness ==
    /\ pc = "interpret" /\ nlines = 2
    /\ history = {FirstLineFive}
    /\ src = Line(AnsText \o Text1("*") \o Text1("2"))
    /\ ans = Some(Rat(5, 1))
    /\ result = Ok(Rat(10, 1))

-----------------------------------------------------------------------------
(* C18, C19, C20: the errors of groups, of operands and of calls, told     *)
(* from the tokens of the source.                                          *)

\* an operand has to start at token i: at the first token; after a unary
\* minus, the parenthesis of a group or the parenthesis of a call that stand
\* where an operand has to start; after a binary operator that follows an
\* expression started where an operand had to; after the comma that follows
\* the first argument of a pow call
RECURSIVE OperandAt(_, _)
OperandAt(toks, i) ==
    \/ i = 1
    \/ /\ i > 1 /\ i - 1 <= Len(toks)
       /\ \/ toks[i - 1].t = "Minus" /\ OperandAt(toks, i - 1)
          \/ toks[i - 1].t = "LeftParen" /\ OperandAt(toks, i - 1)
          \/ /\ toks[i - 1].t = "LeftParen" /\ i > 2 /\ toks[i - 2].t = "Func"
             /\ OperandAt(toks, i - 2)
          \/ /\ IsBinaryToken(toks[i - 1])
             /\ \E j \in 1..(i - 2) : (i - 1) \in ExprEnds(toks, j) /\ OperandAt(toks, j)
          \/ /\ toks[i - 1].t = "Comma"
             /\ \E j \in 1..(i - 4) :
                    /\ toks[j] = Func("Pow") /\ toks[j + 1].t = "LeftParen"
                    /\ (i - 1) \in ExprEnds(toks, j + 2) /\ OperandAt(toks, j)

\* token i opens a group
GroupAt(toks, i) ==
    /\ i \in DOMAIN toks /\ toks[i].t = "LeftParen" /\ OperandAt(toks, i)

\* the tokens that can follow the inner expression of a group opened
\* somewhere in toks without being part of it (None: the end of the input)
AfterInnerExpression(toks) ==
    {TokAt(toks, e) : e \in UNION {ExprEnds(toks, i + 1) : i \in {k \in DOMAIN toks : GroupAt(toks, k)}}}
        \ {Plus, Minus, Mult, Div}

\* C18 as the claim states it: a group whose inner expression is followed by
\* the end of the input or by any token but `)` makes compile fail with
\* UnterminedGroup.
C18_AnyTokenButTheParenthesis ==
    LET T == SourceTokens
    IN  Compiled /\ AllTokens(T) /\ AfterInnerExpression(T) \ {RightParen} # {}
            => compiled = UnterminedGroup

\* C18, amended: a group whose inner expression is followed by the end of the
\* input, a number, ans or a comma makes compile fail with UnterminedGroup.
C18_UnterminedGroup ==
    LET T == SourceTokens
        after == AfterInnerExpression(T)
    IN  Compiled /\ AllTokens(T) /\ after \ {RightParen} # {}
          /\ (\A tok \in after : tok = None \/ tok.t \notin {"LeftParen", "Func"})
            => compiled = UnterminedGroup

\* test_unterminated_group: two groups, the outer one never closed
C18_Witness ==
    LET T == SourceTokens
    IN  /\ Len(T) = 12 /\ AllTokens(T) /\ GroupAt(T, 3) /\ GroupAt(T, 8)
        /\ None \in AfterInnerExpression(T)
        /\ compiled = UnterminedGroup

\* the bytes of the source a token was scanned from
Lexeme(tok) ==
    CASE tok.t = "Number" -> tok.digits
      [] tok.t = "Func" ->
            (CASE tok.f = "Sqrt" -> SqrtText
               [] tok.f = "Log" -> <<"l", "o", "g">>
               [] tok.f = "Sin" -> SinText
               [] tok.f = "Cos" -> <<"c", "o", "s">>
               [] tok.f = "Pow" -> PowText)
      [] tok.t = "LeftParen" -> <<"(">>
      [] tok.t = "RightParen" -> <<")">>
      [] tok.t = "Plus" -> <<"+">>
      [] tok.t = "Minus" -> <<"-">>
      [] tok.t = "Mult" -> <<"*">>
      [] tok.t = "Div" -> <<"/">>
      [] tok.t = "Comma" -> <<",">>
      [] tok.t = "Ans" -> AnsText

\* the tokens of toks that stand where an operand has to start and start none
Misplaced(toks) ==
    {i \in DOMAIN toks : OperandAt(toks, i) /\ toks[i] \in {RightParen, Comma, Plus, Mult, Div}}

\* C19: a `)`, `,`, `+`, `*` or `/` where an operand has to start makes compile
\* fail with InvalidTokenBefore, prev the text of that token and current the
\* text of the token after it, none at the end of the input.
C19_InvalidTokenBefore ==
    LET T == SourceTokens
    IN  Compiled /\ AllTokens(T) =>
            \A i \in Misplaced(T) :
                /\ compiled.t = "Err" /\ compiled.e = "InvalidTokenBefore"
                /\ compiled.prev = Lexeme(T[i])
                /\ compiled.current = IF i = Len(T) THEN None ELSE Some(Lexeme(T[i + 1]))

\* token i is the name of a call
CallAt(toks, i) == i \in DOMAIN toks /\ toks[i].t = "Func" /\ OperandAt(toks, i)
OpenCalls(toks) == {i \in DOMAIN toks : CallAt(toks, i) /\ TokAt(toks, i + 1).t = "LeftParen"}

\* the kinds of what can follow an argument without being part of it; None is
\* the end of the input
FollowerKinds == {"None", "Number", "Ans", "Comma", "RightParen", "LeftParen", "Func"}

\* the errors the calls of toks are to give, each with the position of the
\* token that is not the one the call needs; only followers of the kinds given
\* are looked at
CallErrors(toks, kinds) ==
    {[err |-> MissingFunctionParen, at |-> i + 1]
        : i \in {k \in DOMAIN toks : CallAt(toks, k) /\ TokAt(toks, k + 1).t # "LeftParen"}}
      \cup UNION {{[err |-> MissingCommaInFunctionCall, at |-> e]
                     : e \in {x \in UNION {ArgsEnds(toks, i + 2, n)
                                             : n \in 1..(GrammarArity(toks[i].f) - 1)}
                                : TokAt(toks, x).t \in kinds \ {"Comma"}}}
                     : i \in OpenCalls(toks)}
      \cup UNION {{[err |-> MissingFunctionParen, at |-> e]
                     : e \in {x \in ArgsEnds(toks, i + 2, GrammarArity(toks[i].f))
                                : TokAt(toks, x).t \in kinds \ {"RightParen"}}}
                     : i \in OpenCalls(toks)}

\* the calls of toks closed before position p, and the Func opcodes of bytes
ClosedCalls(toks, p) ==
    {j \in DOMAIN toks : toks[j].t = "Func" /\ \E e \in FuncEnds(toks, j) : e <= p}
FuncOpcodes(bytes) ==
    {k \in DOMAIN Instructions(bytes, 0) : Instructions(bytes, 0)[k].tag = OpFunc}

\* compile failed as r tells, and pushed a Func opcode for the closed calls only
FailedCall(toks, r) ==
    /\ compiled = r.err
    /\ Cardinality(FuncOpcodes(chunk)) = Cardinality(ClosedCalls(toks, r.at))

\* C20 as the claim states it: a function name without `(` after it gives
\* MissingFunctionParen, an argument but the last without `,` after it
\* MissingCommaInFunctionCall, the last argument without `)` after it
\* MissingFunctionParen, whatever stands there instead; and the call's Func
\* opcode is not pushed.
C20_AnyTokenInTheWrongPlace ==
    LET T == SourceTokens
    IN  Compiled /\ AllTokens(T) => \A r \in CallErrors(T, FollowerKinds) : FailedCall(T, r)

\* C20, amended: the same, for an argument followed by the end of the input,
\* a number, ans, `)` or `,`.
C20_CallErrors ==
    LET T == SourceTokens
    IN  Compiled /\ AllTokens(T) =>
            \A r \in CallErrors(T, FollowerKinds \ {"LeftParen", "Func"}) : FailedCall(T, r)

\* pow ( 1 , 1 , : a comma after the last argument, two literals pushed and no
\* Func opcode
C20_Witness ==
    LET T == SourceTokens
    IN  /\ Len(T) = 6 /\ AllTokens(T) /\ T[1] = Func("Pow") /\ T[6] = Comma
        /\ CallErrors(T, FollowerKinds) = {[err |-> MissingFunctionParen, at |-> 6]}
        /\ compiled = MissingFunctionParen
        /\ Len(Instructions(chunk, 0)) = 2 /\ FuncOpcodes(chunk) = {}

-----------------------------------------------------------------------------
(* C21: the token that stands where a binary operator could.               *)

\* the positions of the tokens left when the top-level expression has ended:
\* a number, ans, a comma or a closing parenthesis after an expression that
\* starts at the first token
LeftoverAt(toks) ==
    {e \in ExprEnds(toks, 1) :
        e <= Len(toks) /\ toks[e].t \in {"Number", "Ans", "Comma", "RightParen"}}

\* the positions of an opening parenthesis or of a function name that follows
\* an operand: it ends an expression started where an operand had to start
AfterOperandAt(toks) ==
    {e \in DOMAIN toks :
        /\ toks[e].t \in {"LeftParen", "Func"}
        /\ \E j \in 1..(e - 1) : OperandAt(toks, j) /\ e \in ExprEnds(toks, j)}

\* C21 as the claim states it: a token left when the top-level expression
\* has ended makes compile fail with InvalidToken of that token, and so does
\* an opening parenthesis or a function name that follows an operand.
C21_InvalidTokenInOperatorPosition ==
    LET T == SourceTokens
    IN  Compiled =>
          /\ \A e \in LeftoverAt(T) : compiled = InvalidToken(T[e])
          /\ \A e \in AfterOperandAt(T) : compiled = InvalidToken(T[e])

\* C21, amended: a token left when the top-level expression has ended makes
\* compile fail with InvalidToken of that token; an opening parenthesis or a
\* function name that follows an operand makes compile fail with InvalidToken
\* of that token when it is the last of the input or a token follows it.
C21_InvalidToken ==
    LET T == SourceTokens
    IN  Compiled =>
          /\ \A e \in LeftoverAt(T) : compiled = InvalidToken(T[e])
          /\ \A e \in AfterOperandAt(T) :
                (e = Len(T) \/ IsToken(T[e + 1])) => compiled = InvalidToken(T[e])

\* `1 , 2` has been compiled: the comma is left
C21_Witness ==
    LET T == SourceTokens
    IN  /\ Compiled
        /\ T = <<Number(Text1("1")), Comma, Number(Text1("2"))>>
        /\ LeftoverAt(T) = {2}
        /\ compiled = InvalidToken(Comma)

-----------------------------------------------------------------------------
(* C22: division by zero.                                                  *)

\* interpret is about to execute the instruction of tag `tag`
AtOpcode(tag) ==
    /\ pc \in InterpretPcs
    /\ result = NotYet
    /\ instruction_pointer < Len(chunk)
    /\ chunk[instruction_pointer + 1] = tag

\* the step that executes Div on a divisor a and a dividend b: a zero divisor
\* gives DivisionByZero and both operands are gone from the stack with
\* nothing pushed; a divisor that is not zero gives b / a on the stack
C22_DivStep ==
    (AtOpcode(OpDiv) /\ Len(stack) >= 2 /\ instruction_pointer' # instruction_pointer) =>
        LET a == Top(stack)
            b == Top(Pop(stack))
        IN  /\ EqZero(a) = {TRUE} =>
                /\ result' = DivisionByZero
                /\ stack' = Pop(Pop(stack))
            /\ EqZero(a) = {FALSE} =>
                /\ result' = NotYet
                /\ \E q \in FDiv(b, a) : stack' = Append(Pop(Pop(stack)), q)

\* once interpret has failed with DivisionByZero nothing more is executed
C22_DivisionByZeroStops ==
    result = DivisionByZero =>
        /\ result' = result
        /\ instruction_pointer' = instruction_pointer
        /\ stack' = stack

\* the source is a term divided by a literal zero, and the term is evaluated
\* without an error of its own: the evaluation fails with DivisionByZero
C22_ZeroDivisorSource ==
    LET T == SourceTokens
        n == Len(T)
    IN  (/\ CompiledOk /\ result # NotYet
         /\ n >= 3 /\ AllTokens(T)
         /\ T[n - 1] = Div /\ T[n].t = "Number"
         /\ (n - 1) \in TermEnds(T, 1)
         /\ ParseF64(T[n].digits) \in {Some(Zero), Some(NegZero)}
         /\ \A r \in Interpret(SubSeq(chunk, 1, Len(chunk) - 10), 0, <<>>, ans) : r.t = "Ok")
        => result = DivisionByZero

\* C22: Div whose popped divisor a is zero fails with DivisionByZero, pushes
\* no result and stops interpretation at that instruction; with a divisor
\* that is not zero it pushes b / a; a source whose divisor evaluates to zero,
\* such as `1 / 0`, evaluates to DivisionByZero.
C22_DivisionByZero ==
    /\ [][C22_DivStep /\ C22_DivisionByZeroStops]_vars
    /\ []C22_ZeroDivisorSource

\* `1 / 0` has been evaluated
C22_Witness ==
    /\ result = DivisionByZero
    /\ SourceTokens = <<Number(Text1("1")), Div, Number(Text1("0"))>>
    /\ chunk[Len(chunk)] = OpDiv
    /\ instruction_pointer = Len(chunk)
    /\ stack = <<>>

-----------------------------------------------------------------------------
(* C23: the lexer's errors in the compiler.                                *)

\* what the last call of scan returned
LastScanned == scanned[Len(scanned)]

\* a step of compile in which advance called scan
ScansInCompile == frames # <<>> /\ Len(scanned') = Len(scanned) + 1

\* the step in which scan fails with an error other than Eof ends compile
\* with FromLexer of that error; the step in which scan returns Eof leaves
\* no current token and is no error of compile
C23_ScanStep ==
    ScansInCompile =>
        LET e == scanned'[Len(scanned')]
        IN  /\ (IsLexerError(e) /\ e # Eof) =>
                /\ compiled' = FromLexer(e)
                /\ frames' = <<>>
            /\ e = Eof =>
                /\ current_token' = None
                /\ ~(compiled'.t = "Err" /\ compiled'.e = "FromLexer")
            /\ IsToken(e) =>
                /\ current_token' = e
                /\ ~(compiled'.t = "Err" /\ compiled'.e = "FromLexer")

\* compile never returns FromLexer(Eof); a FromLexer it returns carries the
\* error of the last scan; after Eof there is no current token
C23_LexerErrorReturned ==
    /\ compiled # FromLexer(Eof)
    /\ (compiled # NotYet /\ compiled.t = "Err" /\ compiled.e = "FromLexer") =>
            /\ scanned # <<>>
            /\ compiled = FromLexer(LastScanned)
            /\ LastScanned # Eof
    /\ (scanned # <<>> /\ LastScanned = Eof) => current_token = None
    /\ \A k \in DOMAIN scanned :
            (IsLexerError(scanned[k]) /\ scanned[k] # Eof) =>
                (k = Len(scanned) /\ compiled = FromLexer(scanned[k]))

\* C23: every lexer error other than Eof that scan returns during a compile
\* is returned by compile as FromLexer of exactly that error; Eof is never
\* returned as a compile error and sets the current token to none.
C23_FromLexer ==
    /\ [][C23_ScanStep]_vars
    /\ []C23_LexerErrorReturned

\* `pow ( 1 , 1.4.e1`: the second argument is no number
C23_Witness ==
    /\ Compiled
    /\ Len(scanned) = 5
    /\ scanned[1] = Func("Pow")
    /\ scanned[4] = Comma
    /\ scanned[5] = InvalidNumberFormat(".")
    /\ compiled = FromLexer(InvalidNumberFormat("."))

-----------------------------------------------------------------------------
(* C24: the malformed literals.  Positions are those of the bytes in the    *)
(* buffer, the first byte at 1.                                            *)

\* the byte at k goes on a literal that starts at byte s: a digit; a `.` with
\* no `.` and no `e` before it; an `e` with no `e` before it, right after a
\* digit or a `.`; a `-` right after an `e`
GoesOn(buf, s, k) ==
    LET c == buf[k]
        before == {buf[m] : m \in s..(k - 1)}
    IN  \/ is_ascii_digit(c)
        \/ c = "." /\ "." \notin before /\ "e" \notin before
        \/ c = "e" /\ "e" \notin before /\ (buf[k - 1] = "." \/ is_ascii_digit(buf[k - 1]))
        \/ c = "-" /\ buf[k - 1] = "e"

\* the byte at k is one of those the claim names, in a literal that starts at
\* byte s < k
Offends(buf, s, k) ==
    LET c == buf[k]
        before == {buf[m] : m \in s..(k - 1)}
    IN  \/ c = "." /\ ("." \in before \/ "e" \in before)
        \/ c = "e" /\ ("e" \in before \/ ~(buf[k - 1] = "." \/ is_ascii_digit(buf[k - 1])))
        \/ /\ ~is_ascii_digit(c) /\ c \notin {".", "e", "-"}
           /\ buf[k - 1] \in {"e", "."}

\* the bytes at which a scan from the cursor i enters number mode: the first
\* byte after the whitespace, when it is a digit
NumberStarts(buf, i) ==
    {s \in (i + 1)..Len(buf) :
        /\ is_ascii_digit(buf[s])
        /\ \A m \in (i + 1)..(s - 1) : is_ascii_whitespace(buf[m])}

\* the first byte of the claim's list that number mode comes to, for each
\* literal that starts at s
OffendingAt(buf, s) ==
    {k \in (s + 1)..Len(buf) :
        Offends(buf, s, k) /\ \A j \in (s + 1)..(k - 1) : GoesOn(buf, s, j)}

\* a call of scan that enters number mode and comes to such a byte fails with
\* InvalidNumberFormat of that byte
C24_ScanStep ==
    (pc = "scan" /\ Len(scanned') = Len(scanned) + 1) =>
        \A s \in NumberStarts(src, src_index) : \A k \in OffendingAt(src, s) :
            scanned'[Len(scanned')] = InvalidNumberFormat(src[k])

\* C24: in number mode scan fails with InvalidNumberFormat of the offending
\* byte when a `.` follows an earlier `.` or `e`, when an `e` follows an
\* earlier `e` or a byte that is neither `.` nor a digit, and when a byte that
\* is not a digit, `.`, `e` or `-` directly follows a trailing `e` or `.`;
\* `1.4.e1` fails with InvalidNumberFormat('.').
C24_InvalidNumberFormat ==
    /\ [][C24_ScanStep]_vars
    /\ [](src = <<"1", ".", "4", ".", "e", "1">> /\ scanned # <<>>
            => scanned[1] = InvalidNumberFormat("."))

\* test_invalid_number: `1.4.e1` has been scanned once
C24_Witness ==
    /\ src = <<"1", ".", "4", ".", "e", "1">>
    /\ OffendingAt(src, 1) = {4}
    /\ scanned = <<InvalidNumberFormat(".")>>

-----------------------------------------------------------------------------
(* C25: the payload of Number.                                             *)

\* the step that executes Number on the payload `bytes` pushes the f64 whose
\* 64-bit pattern has bytes[1] as its least significant byte; the compiler's
\* encoding of that f64 is least significant byte first, is decoded to the
\* same f64, and is `bytes` again (the model keeps one NaN for all the NaN
\* patterns, so the last is said of the other patterns)
C25_NumberStep ==
    (/\ AtOpcode(OpNumber)
     /\ instruction_pointer + 9 <= Len(chunk)
     /\ instruction_pointer' # instruction_pointer) =>
        LET bytes == SubSeq(chunk, instruction_pointer + 2, instruction_pointer + 9)
            v == stack'[Len(stack')]
        IN  /\ result' = NotYet
            /\ instruction_pointer' = instruction_pointer + 9
            /\ stack' = Append(stack, v)
            /\ v = from_bits([k \in 1..8 |-> bytes[9 - k]])
            /\ \A k \in 1..8 : NumberPayload(v)[k] = to_bits(v)[9 - k]
            /\ parse_number(NumberPayload(v)) = v
            /\ ~IsNaN(v) => NumberPayload(v) = bytes

\* C25: the payload of Number is the 64-bit pattern of the value, least
\* significant byte first, and the machine's decoding is the exact inverse of
\* the compiler's encoding: decode(encode(x)) = x for every pattern.
C25_DecodeInvertsEncode == [][C25_NumberStep]_vars

\* the pattern 0x3FF0000000000000 of 1.0 has been decoded
C25_Witness ==
    /\ pc = "vm_interpret"
    /\ chunk = <<OpNumber, 0, 0, 0, 0, 0, 0, 240, 63>>
    /\ instruction_pointer = 9
    /\ stack = <<Rat(1, 1)>>
    /\ NumberPayload(Rat(1, 1)) = SubSeq(chunk, 2, 9)

-----------------------------------------------------------------------------
(* C26: the operands of the binary instructions and of Negate.             *)

BinaryTags == {OpPlus, OpMinus, OpMult, OpDiv}

\* left op right for the binary instruction of tag op
ApplyOp(op, left, right) ==
    CASE op = OpPlus -> FAdd(left, right)
      [] op = OpMinus -> FSub(left, right)
      [] op = OpMult -> FMul(left, right)
      [] op = OpDiv -> FDiv(left, right)

\* the step that executes a binary instruction without failing: a is the top
\* of the stack, b the value below it, both are gone and b op a is pushed,
\* so that the stack is one value shorter
C26_BinaryStep ==
    \A op \in BinaryTags :
        (/\ AtOpcode(op) /\ Len(stack) >= 2
         /\ instruction_pointer' # instruction_pointer /\ result' = NotYet) =>
            LET a == Top(stack)
                b == Top(Pop(stack))
            IN  /\ \E v \in ApplyOp(op, b, a) : stack' = Append(Pop(Pop(stack)), v)
                /\ Len(stack') = Len(stack) - 1
                /\ instruction_pointer' = instruction_pointer + 1

\* the step that executes Negate: the top a is replaced by -a
C26_NegateStep ==
    (AtOpcode(OpNegate) /\ stack # <<>> /\ instruction_pointer' # instruction_pointer) =>
        /\ result' = NotYet
        /\ stack' = Append(Pop(stack), FNeg(Top(stack)))
        /\ Len(stack') = Len(stack)
        /\ instruction_pointer' = instruction_pointer + 1

\* the small integers x then y pushed, then Minus: x - y; then Div, for the
\* quotients that are small dyadic numbers: x / y
C26_SourceOrder ==
    \A x \in I8Bytes, y \in I8Bytes :
        LET vx == U8AsI8(x)
            vy == U8AsI8(y)
        IN  /\ (chunk = <<OpNumberI8, x, OpNumberI8, y, OpMinus>> /\ result # NotYet)
                => result = Ok(Rat(vx - vy, 1))
            /\ (/\ chunk = <<OpNumberI8, x, OpNumberI8, y, OpDiv>> /\ result # NotYet
                /\ vy \in {2, -2} /\ vx # 0)
                => result = Ok(Rat(vx, vy))

-----------------------------------------------------------------------------
(* C27: NumberI8.                                                          *)

\* the step that executes NumberI8 on the payload byte b pushes b taken as a
\* two's-complement integer and moves the instruction pointer by two
C27_NumberI8Step ==
    (/\ AtOpcode(OpNumberI8)
     /\ instruction_pointer + 2 <= Len(chunk)
     /\ instruction_pointer' # instruction_pointer) =>
        LET b == chunk[instruction_pointer + 2]
        IN  /\ result' = NotYet
            /\ stack' = Append(stack, Rat(IF b < 128 THEN b ELSE b - 256, 1))
            /\ instruction_pointer' = instruction_pointer + 2

\* test_i8_opcode: NumberI8 and the byte of -15 give -15
C27_TestI8Opcode ==
    (chunk = <<OpNumberI8, 241>> /\ result # NotYet) => result = Ok(Rat(-15, 1))

-----------------------------------------------------------------------------
(* C28: the tags of the opcodes and the ids of the functions.              *)

\* the byte interpret is about to decode as a tag
TagByte == chunk[instruction_pointer + 1]

\* the byte function is about to decode as a function id
AtFuncId ==
    /\ AtOpcode(OpFunc)
    /\ instruction_pointer + 2 <= Len(chunk)

\* C28: the tags are Number=0, Plus=1, Minus=2, Mult=3, Div=4, Negate=5,
\* Func=6, Ans=7, NumberI8=8 and the function ids Sqrt=0, Log=1, Sin=2,
\* Cos=3, Pow=4; byte -> enum -> byte is the identity on them: every tag in
\* 0..8 decodes to an opcode, every function id in 0..4 to a function, and
\* every byte outside the table fails to decode.
C28_TagsRoundTrip ==
    /\ <<OpNumber, OpPlus, OpMinus, OpMult, OpDiv, OpNegate, OpFunc, OpAns, OpNumberI8>>
          = <<0, 1, 2, 3, 4, 5, 6, 7, 8>>
    /\ [f \in {"Sqrt", "Log", "Sin", "Cos", "Pow"} |-> FuncTypeAsU8(f)]
          = [Sqrt |-> 0, Log |-> 1, Sin |-> 2, Cos |-> 3, Pow |-> 4]
    /\ (pc \in InterpretPcs /\ instruction_pointer < Len(chunk)) =>
          /\ TagByte \in 0..8 => (OpTryFrom(TagByte) # None /\ OpTryFrom(TagByte).v = TagByte)
          /\ TagByte \notin 0..8 => OpTryFrom(TagByte) = None
    /\ AtFuncId =>
          LET id == chunk[instruction_pointer + 2]
          IN  /\ id \in 0..4 =>
                    /\ FuncTypeTryFrom(id) # None
                    /\ FuncTypeAsU8(FuncTypeTryFrom(id).v) = id
              /\ id \notin 0..4 => FuncTypeTryFrom(id) = None

-----------------------------------------------------------------------------
(* C29: the priority ladder.                                               *)

\* the rungs, lowest first
Ladder == <<PNull, PComma, PNumber, PTerm, PFactor, PUnary, PGroup>>

\* the priority the claim gives to a token
ClaimedPriority(tok) ==
    CASE tok.t \in {"Plus", "Minus"} -> PTerm
      [] tok.t \in {"Mult", "Div", "Func"} -> PFactor
      [] tok.t = "LeftParen" -> PGroup
      [] tok.t \in {"Number", "Ans"} -> PNumber
      [] tok.t = "Comma" -> PComma
      [] tok.t = "RightParen" -> PNull

\* C29: the ladder is the total order Null < Comma < Number < Term < Factor
\* < Unary < Group; next maps each rung to the one directly above it and
\* Group to itself, so p <= next(p) with equality only at Group; every token
\* scanned has the priority the claim gives its kind, and the minimum the
\* right operand of a binary operator is parsed at is next of the
\* operator's priority.
C29_PriorityLadder ==
    /\ \A i \in 1..6 : Ladder[i] < Ladder[i + 1] /\ PriorityNext(Ladder[i]) = Ladder[i + 1]
    /\ PriorityNext(PGroup) = PGroup
    /\ \A i \in 1..7 :
          /\ Ladder[i] <= PriorityNext(Ladder[i])
          /\ (Ladder[i] = PriorityNext(Ladder[i])) <=> (Ladder[i] = PGroup)
    /\ \A k \in DOMAIN scanned :
          IsToken(scanned[k]) => priority(scanned[k]) = ClaimedPriority(scanned[k])
    /\ (Len(frames) >= 2 /\ frames[1].k = "expression" /\ frames[2].k = "parse_binary") =>
          frames[1].p = (IF frames[2].tok.t \in {"Plus", "Minus"} THEN PFactor ELSE PUnary)

\* the right operand of `*` in `1 * sqrt` is about to be parsed at Unary
C29_Witness ==
    /\ Len(frames) >= 2
    /\ frames[1] = ExpressionFrame(PUnary)
    /\ frames[2] = ParseBinaryFrame(Mult)
    /\ scanned = <<Number(Text1("1")), Mult, Func("Sqrt")>>

-----------------------------------------------------------------------------
(* C30: Eof.                                                               *)

\* only ASCII whitespace, or nothing, remains in the buffer after the cursor
OnlyWhitespaceLeft ==
    \A m \in (src_index + 1)..Len(src) : src[m] \in {" ", "\t", "\n", "\f", "\r"}

\* a call of scan returns Eof exactly when only whitespace remains after the
\* cursor; after a call that returned Eof the next returns Eof and leaves
\* the cursor where it was
C30_ScanStep ==
    (pc = "scan" /\ Len(scanned') = Len(scanned) + 1) =>
        /\ (scanned'[Len(scanned')] = Eof) <=> OnlyWhitespaceLeft
        /\ (scanned # <<>> /\ LastScanned = Eof) =>
              /\ scanned'[Len(scanned')] = Eof
              /\ src_index' = src_index

\* nothing but Eof is returned after Eof
C30_EofIsLast ==
    \A k \in DOMAIN scanned : \A j \in DOMAIN scanned :
        (k < j /\ scanned[k] = Eof) => scanned[j] = Eof

\* C30: once scan has returned Eof, every later scan returns Eof and the
\* cursor does not move; scan returns Eof exactly when only ASCII whitespace
\* (or nothing) remains after the cursor.
C30_EofIsSticky ==
    /\ [][C30_ScanStep]_vars
    /\ []C30_EofIsLast

\* `1 ` scanned three times: the number, Eof over the blank, Eof again
C30_Witness ==
    /\ src = <<"1", " ">>
    /\ scanned = <<Number(Text1("1")), Eof, Eof>>
    /\ src_index = 2

-----------------------------------------------------------------------------
(* C31: the calls of functions.                                            *)

\* the values of the function f on the argument given last and, for pow, the
\* argument given before it
FunctionValues(f, first, last) ==
    CASE f = "Sqrt" -> FSqrt(last)
      [] f = "Log" -> FLn(last)
      [] f = "Sin" -> FSin(last)
      [] f = "Cos" -> FCos(last)
      [] f = "Pow" -> FPowf(first, last)

\* the source is f ( a ) with a an operand of one token
IsCallOfOne(toks) ==
    /\ Len(toks) = 4 /\ AllTokens(toks)
    /\ toks[1].t = "Func" /\ toks[1].f # "Pow"
    /\ toks[2] = LeftParen /\ IsOperandToken(toks[3]) /\ toks[4] = RightParen

\* the source is pow ( a , b ) with a and b operands of one token
IsCallOfTwo(toks) ==
    /\ Len(toks) = 6 /\ AllTokens(toks)
    /\ toks[1] = Func("Pow") /\ toks[2] = LeftParen /\ IsOperandToken(toks[3])
    /\ toks[4] = Comma /\ IsOperandToken(toks[5]) /\ toks[6] = RightParen

\* a call compiles to the code of its arguments in the order of the source,
\* then Func and the id of the function
C31_CallCode ==
    LET T == SourceTokens
    IN  Compiled =>
          /\ IsCallOfOne(T) =>
                /\ compiled = OkUnit
                /\ chunk = OperandCode(T[3]) \o <<OpFunc, FuncTypeAsU8(T[1].f)>>
          /\ IsCallOfTwo(T) =>
                /\ compiled = OkUnit
                /\ chunk = OperandCode(T[3]) \o OperandCode(T[5])
                             \o <<OpFunc, FuncTypeAsU8("Pow")>>

\* the step that executes Func without failing: for Pow the top is the
\* exponent and the value below it the base, both are replaced by
\* base^exponent; for the other functions the top is replaced by the
\* function of it
C31_FuncStep ==
    (/\ AtOpcode(OpFunc)
     /\ instruction_pointer + 2 <= Len(chunk)
     /\ FuncTypeTryFrom(chunk[instruction_pointer + 2]) # None
     /\ instruction_pointer' # instruction_pointer
     /\ result' = NotYet) =>
        LET f == FuncTypeTryFrom(chunk[instruction_pointer + 2]).v
        IN  /\ instruction_pointer' = instruction_pointer + 2
            /\ (f = "Pow" /\ Len(stack) >= 2) =>
                  \E v \in FPowf(Top(Pop(stack)), Top(stack)) :
                      stack' = Append(Pop(Pop(stack)), v)
            /\ (f # "Pow" /\ stack # <<>>) =>
                  \E v \in FunctionValues(f, Top(stack), Top(stack)) :
                      stack' = Append(Pop(stack), v)

\* pow(2, 3) is 8 and pow(3, 2) is 9
C31_PowOfLiterals ==
    /\ (src = <<"p", "o", "w", " ", "(", " ", "2", " ", ",", " ", "3", " ", ")">>
          /\ result # NotYet) => result = Ok(Rat(8, 1))
    /\ (src = <<"p", "o", "w", " ", "(", " ", "3", " ", ",", " ", "2", " ", ")">>
          /\ result # NotYet) => result = Ok(Rat(9, 1))

\* C31: a function call compiles to the code of its arguments in source
\* order followed by Func and the function id; for Pow the machine pops the
\* exponent first and the base second, so pow(a, b) is a raised to b; each
\* unary function replaces the top of the stack by its result.
C31_FunctionCalls ==
    /\ [][C31_FuncStep]_vars
    /\ [](C31_CallCode /\ C31_PowOfLiterals)

\* pow ( 2 , 3 ) has been evaluated to 8
C31_Witness ==
    /\ result = Ok(Rat(8, 1))
    /\ IsCallOfTwo(SourceTokens)
    /\ SourceTokens[3] = Number(Text1("2"))
    /\ SourceTokens[5] = Number(Text1("3"))
    /\ chunk = OperandCode(Number(Text1("2"))) \o OperandCode(Number(Text1("3"))) \o <<OpFunc, 4>>

-----------------------------------------------------------------------------
(* C32: the arguments the functions refuse.                                *)

\* the f64 a is below zero (minus infinity too), is a zero, is an infinity
IsNegative(a) == ~IsNaN(a) /\ SignOf(a) = -1
IsZero(a) == ~IsNaN(a) /\ SignOf(a) = 0
IsInfinite(a) == a.t = "inf"

\* the step that executes Func on the argument a at the top of the stack:
\* Log of a negative, zero or infinite a (or of NaN) and Sqrt of a negative a
\* (or of NaN) fail with InvalidFunctionArgs of the function and of a, a is
\* popped and nothing is pushed; Sin, Cos and Pow return no error
C32_FuncStep ==
    (/\ AtOpcode(OpFunc)
     /\ instruction_pointer + 2 <= Len(chunk)
     /\ FuncTypeTryFrom(chunk[instruction_pointer + 2]) # None
     /\ stack # <<>>
     /\ instruction_pointer' # instruction_pointer) =>
        LET f == FuncTypeTryFrom(chunk[instruction_pointer + 2]).v
            a == Top(stack)
        IN  /\ (f = "Log" /\ (IsNegative(a) \/ IsZero(a) \/ IsInfinite(a) \/ IsNaN(a))) =>
                  /\ result' = InvalidFunctionArgs("Log", <<a>>)
                  /\ stack' = Pop(stack)
            /\ (f = "Log" /\ result' # NotYet) =>
                  /\ result' = InvalidFunctionArgs("Log", <<a>>)
                  /\ \E v \in FLn(a) : ~IsFinite(v)
            /\ (f = "Sqrt" /\ (IsNegative(a) \/ IsNaN(a))) =>
                  /\ result' = InvalidFunctionArgs("Sqrt", <<a>>)
                  /\ stack' = Pop(stack)
            /\ (f = "Sqrt" /\ result' # NotYet) =>
                  /\ result' = InvalidFunctionArgs("Sqrt", <<a>>)
                  /\ \E v \in FSqrt(a) : IsNaN(v)
            /\ f \in {"Sin", "Cos", "Pow"} => result'.t # "Err"

-----------------------------------------------------------------------------
(* The compiler alone, as compiler_tests drive it: compile on one lexer,   *)
(* then compile again on a new lexer with the opcodes left as they are, or *)
(* reset. history holds the compiles that returned since the last reset,   *)
(* nlines counts the compiles started.                                     *)

MaxCompiles == 2

\* the source of the first compile
CompilerSources ==
    TextsOver(EvalLexemes, 2) \cup ExprTexts(1) \cup TestTexts
      \cup {<<"1", " ", "x">>, <<"1", " ", "+", " ", "2", " ", "*">>,
            <<"p", "o", "w", " ", "(", " ", "1", " ", ",", " ", ")">>,
            <<"p", "o", "w", " ", "(", " ", "1", " ", ",", " ", "2", " ", ")">>}

\* the source of a later compile
AgainSources ==
    {<<>>, Text1("2"), <<"2", " ", "+">>, <<"a", "n", "s", " ", "*", " ", "3">>, Text1("x")}

InitCompilerAlone ==
    /\ pc = "compiler"
    /\ src \in CompilerSources
    /\ src_index = 0
    /\ scanned = <<>>
    /\ InitCompiler
    /\ InitVm(None)
    /\ nlines = 1
    /\ history = {}
    /\ expressions = <<>>
    /\ expression_index = 0

\* compiler.compile(&mut lexer) on a new lexer, the compiler as the compile
\* before left it
CompileAgain ==
    /\ pc = "compiler"
    /\ frames = <<>>
    /\ nlines < MaxCompiles
    /\ \E s \in AgainSources :
          /\ src' = s
          /\ src_index' = 0
          /\ scanned' = <<>>
    /\ frames' = <<Frame("compile")>>
    /\ compiled' = NotYet
    /\ history' = IF compiled = NotYet THEN history ELSE history \cup {Finished}
    /\ UNCHANGED guiVars
    /\ nlines' = nlines + 1
    /\ UNCHANGED <<pc, prev_token, current_token, chunk, vmVars>>

\* compiler.reset() after a compile returned
ResetCompiler ==
    /\ pc = "compiler"
    /\ frames = <<>>
    /\ compiled # NotYet
    /\ CompilerReset
    /\ compiled' = NotYet
    /\ history' = {}
    /\ UNCHANGED guiVars
    /\ UNCHANGED <<pc, lexerVars, frames, vmVars, nlines>>

NextCompiler ==
    \/ CompilerCompile
    \/ CompileEnd
    \/ Expression
    \/ ExpressionLoop
    \/ ParseBinary
    \/ EmitUnary
    \/ ParseGroup
    \/ CompilerParseFn
    \/ ParseFnArg
    \/ CompileAgain
    \/ ResetCompiler

SpecCompiler == InitCompilerAlone /\ [][NextCompiler]_vars

-----------------------------------------------------------------------------
(* C33: the opcode buffer between two resets                               *)

\* the step is the call of reset
C33_IsReset ==
    /\ pc = "compiler"
    /\ frames = <<>> /\ frames' = <<>>
    /\ compiled # NotYet /\ compiled' = NotYet

C33_Step ==
    IF C33_IsReset
    THEN chunk' = <<>> /\ prev_token' = None /\ current_token' = None
    ELSE StartsWith(chunk', chunk)

\* the opcodes each compile since the last reset returned with are still the
\* first bytes of the buffer
C33_EarlierBytesStay == \A h \in history : StartsWith(chunk, h.chunk)

\* C33: compile only appends to the opcode buffer: at every step of a compile,
\* whether it ends in Ok or in an error, the earlier content is a prefix of the
\* later content, so the bytes emitted before a compile error stay in the
\* buffer and a compile started without reset appends after them; only reset
\* shrinks the buffer, and after reset the buffer is empty and both token
\* slots are none.
C33_CompileOnlyAppends == [][C33_Step]_vars /\ []C33_EarlierBytesStay

\* a compile failed after it emitted a number, and the next compile, with no
\* reset between, returned Ok with its own number after that one
C33_Witness ==
    /\ pc = "compiler"
    /\ Compiled
    /\ compiled = OkUnit
    /\ \E h \in history :
          /\ IsErr(h.compiled)
          /\ Len(h.chunk) = 9
          /\ Len(chunk) = 18
          /\ SubSeq(chunk, 1, 9) = h.chunk

-----------------------------------------------------------------------------
(* C34: the cursor and the lexeme of each token                            *)

\* the bytes the lexeme of a token has
C34_LexemeLen(tok) ==
    CASE tok.t = "Number" -> Len(tok.digits)
      [] tok.t = "Func" -> IF tok.f = "Sqrt" THEN 4 ELSE 3
      [] tok.t = "Ans" -> 3
      [] OTHER -> 1

\* the cursor j stands where the whitespace that starts at cursor i ends
C34_WhitespaceEnds(i, j) ==
    /\ i <= j
    /\ j < Len(src)
    /\ \A k \in (i + 1)..j : is_ascii_whitespace(src[k])
    /\ ~is_ascii_whitespace(src[j + 1])

C34_ScanStep ==
    (pc = "scan" /\ Len(scanned') = Len(scanned) + 1) =>
        LET tok == scanned'[Len(scanned')]
        IN  /\ src_index <= src_index'
            /\ src_index' <= Len(src)
            /\ IsToken(tok) =>
                  \E w \in src_index..src_index' :
                      /\ C34_WhitespaceEnds(src_index, w)
                      /\ src_index' = w + C34_LexemeLen(tok)
                      /\ SubSeq(src, w + 1, src_index') = Lexeme(tok)

C34_CursorInBuffer == src_index \in 0..Len(src)

\* C34: the lexer cursor never decreases and never exceeds the buffer length;
\* each successful scan moves it past exactly the skipped whitespace plus the
\* lexeme of the token (1 byte for a single-character token, 3 for ans, sin,
\* cos, log and pow, 4 for sqrt, the length of the literal for a Number), so
\* the tokens come in input order and the slice of a Number token is exactly
\* the bytes between the cursor before and after the literal.
C34_CursorAndLexeme == [][C34_ScanStep]_vars /\ []C34_CursorInBuffer

\* a number after blanks and sqrt after it have been scanned
C34_Witness ==
    /\ pc = "scan"
    /\ Len(scanned) = 2
    /\ scanned[1].t = "Number"
    /\ Len(scanned[1].digits) > 1
    /\ src[1] = " "
    /\ scanned[2] = Func("Sqrt")
    /\ src_index = Len(src)

-----------------------------------------------------------------------------
(* C35: interpret called again with no reset                               *)

\* the call of interpret before this one returned Ok, and no reset came since
C35_AfterSuccess ==
    /\ pc = "vm_interpret"
    /\ chunk # <<>>
    /\ nlines >= 1
    /\ \E h \in history : h.result.t = "Ok"

\* the step is the call of reset
C35_IsReset == result # NotYet /\ result' = NotYet /\ history' = {}

C35_Step ==
    /\ pc = "vm_interpret" =>
          IF C35_IsReset THEN instruction_pointer' = 0
          ELSE instruction_pointer' >= instruction_pointer
    /\ (pc = "vm_interpret" /\ result # NotYet /\ result' = NotYet /\ ~C35_IsReset) =>
          instruction_pointer' = instruction_pointer /\ stack' = stack
    /\ (C35_AfterSuccess /\ result = NotYet) =>
          /\ instruction_pointer = Len(chunk)
          /\ instruction_pointer' = instruction_pointer
          /\ result' = IF stack = <<>> THEN EmptyStack ELSE Ok(Top(stack))
          /\ stack' = IF stack = <<>> THEN stack ELSE Pop(stack)

-----------------------------------------------------------------------------
(* C36: the compiler and the machine at the start of a REPL iteration      *)

\* C36: at the start of every REPL iteration, whatever the earlier lines gave
\* (empty line, compile error, machine error, success), the opcode buffer of
\* the compiler is empty, the instruction pointer of the machine is 0 and its
\* operand stack is empty.
C36_IterationStartsClean ==
    pc = "read" => chunk = <<>> /\ instruction_pointer = 0 /\ stack = <<>>

\* three lines were evaluated: one did not compile, one stopped the machine
\* on ans in the middle of its opcodes, one gave a value
C36_Witness ==
    /\ pc = "read"
    /\ nlines = 3
    /\ \E h \in history : IsErr(h.compiled)
    /\ \E h \in history : h.result = AnsNotAvailable /\ Len(h.chunk) > 1
    /\ \E h \in history : h.result.t = "Ok"
    /\ chunk = <<>>
    /\ instruction_pointer = 0
    /\ stack = <<>>

-----------------------------------------------------------------------------
(* app.rs, mod gui: the history of expressions behind the buttons. Each    *)
(* entry of expressions is the pair (String, Option<f64>) of the code: the *)
(* text s and the answer ans the machine is reset with. result and         *)
(* compiled hold what solve got, which App.result renders.                 *)

MAX_HISTORY_LEN == 10

\* the keys that append to the current expression (draw_function appends the
\* name and the opening parenthesis)
GuiKeys ==
    {Text1("1"), Text1("+"), Text1("-"), Text1("("), Text1(")"), Text1(","),
     PowText \o Text1("(")}

\* the expressions that get typed, key by key: each text and what the keys
\* make of it on the way
GuiTexts ==
    {<<"p", "o", "w", "(", "-", "1", ",", "(", "1", ")", "+", "1", ")">>}

IsTyped(s) == \E t \in GuiTexts : StartsWith(t, s)

GuiPcs == {"gui", "gui_compile", "gui_interpret"}

\* App::default
InitGui ==
    /\ pc = "gui"
    /\ src = <<>>
    /\ src_index = 0
    /\ scanned = <<>>
    /\ prev_token = None
    /\ current_token = None
    /\ chunk = <<>>
    /\ frames = <<>>
    /\ compiled = NotYet
    /\ InitVm(None)
    /\ nlines = 0
    /\ history = {}
    /\ expressions = <<[s |-> <<>>, ans |-> None]>>
    /\ expression_index = 0

\* App::index, counted from 0 as the code counts
index == Len(expressions) - expression_index - 1

\* App::is_current_expression
is_current_expression == expression_index = 0

\* a key that appends its text to the current expression
GuiKey ==
    /\ pc = "gui"
    /\ is_current_expression
    /\ expressions # <<>>
    /\ \E k \in GuiKeys :
          /\ IsTyped(expressions[Len(expressions)].s \o k)
          /\ expressions' = [expressions EXCEPT ![Len(expressions)].s = @ \o k]
    /\ UNCHANGED <<pc, lexerVars, compilerVars, vmVars, nlines, history, expression_index>>

\* the Del key: s.pop() on the current expression
GuiDel ==
    /\ pc = "gui"
    /\ is_current_expression
    /\ expressions # <<>>
    /\ expressions[Len(expressions)].s # <<>>
    /\ expressions' = [expressions EXCEPT ![Len(expressions)].s = SubSeq(@, 1, Len(@) - 1)]
    /\ UNCHANGED <<pc, lexerVars, compilerVars, vmVars, nlines, history, expression_index>>

\* prev that does not look at the length of the history
GuiPrev_Unchecked ==
    /\ pc = "gui"
    /\ expression_index <= MAX_HISTORY_LEN
    /\ expression_index' = expression_index + 1
    /\ UNCHANGED <<pc, lexerVars, compilerVars, vmVars, nlines, history, expressions>>

\* the prev button
GuiPrev ==
    /\ pc = "gui"
    /\ LET idx == expression_index + 1
       IN  /\ Len(expressions) > idx
           /\ expression_index' = idx
    /\ UNCHANGED <<pc, lexerVars, compilerVars, vmVars, nlines, history, expressions>>

\* the next button
GuiNext ==
    /\ pc = "gui"
    /\ ~is_current_expression
    /\ expression_index' = expression_index - 1
    /\ UNCHANGED <<pc, lexerVars, compilerVars, vmVars, nlines, history, expressions>>

\* the = button, App::solve up to the call of compile: the selected entry is
\* read, the machine is reset with its answer; an index out of the history
\* panics
GuiSolve ==
    /\ pc = "gui"
    /\ IF index < 0 \/ index >= Len(expressions)
       THEN /\ pc' = "panicked"
            /\ UNCHANGED <<lexerVars, compilerVars, vmVars>>
       ELSE /\ pc' = "gui_compile"
            /\ src' = expressions[index + 1].s
            /\ src_index' = 0
            /\ scanned' = <<>>
            /\ VmReset(expressions[index + 1].ans)
            /\ result' = NotYet
            /\ frames' = <<Frame("compile")>>
            /\ compiled' = NotYet
            /\ UNCHANGED <<prev_token, current_token, chunk>>
    /\ UNCHANGED <<nlines, history, guiVars>>

\* App::solve: compile returned Ok, and_then calls interpret
GuiInterpret ==
    /\ pc = "gui_compile"
    /\ frames = <<>>
    /\ compiled = OkUnit
    /\ pc' = "gui_interpret"
    /\ UNCHANGED <<lexerVars, compilerVars, vmVars, nlines, history, guiVars>>

\* App::solve, the Ok(r) arm; the lexer of solve ends with it
GuiSolveOk ==
    /\ pc = "gui_interpret"
    /\ result.t = "Ok"
    /\ LET pushed == IF is_current_expression
                     THEN Append(expressions, [s |-> <<>>, ans |-> Some(result.v)])
                     ELSE expressions
       IN  expressions' = IF Len(pushed) >= MAX_HISTORY_LEN THEN Tail(pushed) ELSE pushed
    /\ CompilerReset
    /\ src' = <<>> /\ src_index' = 0 /\ scanned' = <<>>
    /\ pc' = "gui"
    /\ UNCHANGED <<frames, compiled, vmVars, nlines, history, expression_index>>

\* App::solve, the Err(e) arm: compile or interpret returned an error; the
\* lexer of solve ends with it
GuiSolveErr ==
    /\ \/ pc = "gui_compile" /\ frames = <<>> /\ IsErr(compiled)
       \/ pc = "gui_interpret" /\ IsErr(result)
    /\ expressions' = IF expressions = <<>> THEN expressions
                      ELSE [expressions EXCEPT ![Len(expressions)].s = <<>>]
    /\ CompilerReset
    /\ src' = <<>> /\ src_index' = 0 /\ scanned' = <<>>
    /\ pc' = "gui"
    /\ UNCHANGED <<frames, compiled, vmVars, nlines, history, expression_index>>

NextGui ==
    \/ GuiKey
    \/ GuiDel
    \/ GuiPrev
    \/ GuiNext
    \/ GuiSolve
    \/ CompilerCompile
    \/ CompileEnd
    \/ Expression
    \/ ExpressionLoop
    \/ ParseBinary
    \/ EmitUnary
    \/ ParseGroup
    \/ CompilerParseFn
    \/ ParseFnArg
    \/ GuiInterpret
    \/ InterpretStep
    \/ InterpretReturn
    \/ GuiSolveOk
    \/ GuiSolveErr

SpecGui == InitGui /\ [][NextGui]_vars

-----------------------------------------------------------------------------
(* C37: the length of the history and the index into it                    *)

C37_HistoryInRange ==
    pc \in GuiPcs =>
        /\ Len(expressions) >= 1
        /\ Len(expressions) < MAX_HISTORY_LEN
        /\ expression_index >= 0
        /\ expression_index < Len(expressions)
        /\ index \in 0..(Len(expressions) - 1)

\* the step takes the first entry out of the history
C37_DropsFront ==
    /\ expressions # <<>>
    /\ \/ Len(expressions') < Len(expressions)
       \/ /\ Len(expressions') = Len(expressions)
          /\ \E k \in 1..(Len(expressions) - 1) : expressions'[k] # expressions[k]

C37_Step ==
    (pc \in GuiPcs /\ C37_DropsFront) =>
        /\ expression_index = 0
        /\ expression_index' = 0
        /\ \E e \in {expressions'[Len(expressions')]} :
              expressions' = Tail(expressions) \o <<e>>

\* C37: in the GUI history, after any sequence of button presses (input keys,
\* =, prev, next) the history holds between 1 and 9 entries, fewer than
\* MAX_HISTORY_LEN = 10, and expression_index is smaller than the number of
\* entries, so the displayed index len - expression_index - 1 never
\* underflows or goes out of range; an entry is dropped from the front only
\* while the current expression is selected.
C37_HistoryBounds == [][C37_Step]_vars /\ []C37_HistoryInRange

\* the history is full, its first entry was dropped at least once, and the
\* oldest entry left is selected
C37_Witness ==
    /\ pc = "gui"
    /\ Len(expressions) = MAX_HISTORY_LEN - 1
    /\ expressions[1].ans # None
    /\ expression_index = Len(expressions) - 1
    /\ index = 0

====
